---- MODULE Spec2Model ----
(***************************************************************************)
(* ri-event-log: the write pipeline with its per-space promise-chain lock, *)
(* the auto-snapshot hook of the facade, snapshot creation, compaction and *)
(* the archive importer, as state machines over the Dexie tables.          *)
(*                                                                         *)
(* Every `await` of the TypeScript source is a suspension point: one       *)
(* action of the model runs a call from one await to the next.  A record   *)
(* store operation either completes or throws.                             *)
(***************************************************************************)
EXTENDS Integers, Sequences, FiniteSets, TLC

\* ------------------------------------------------------------------ bounds

\* Number of facade / module calls issued in one behaviour.
MaxCalls == 2

\* Number of record-store operations that may throw in one behaviour.
MaxFailures == 1

\* Number of events a space holds, written by earlier calls, when a
\* behaviour of the verifier or of the archive codec starts.
MaxChain == 3

\* CHUNK_SIZE of the verifier (500), scaled down.
ChunkSize == 2

\* snapshotInterval of the configuration (default 100), scaled down.
SnapshotInterval == 1

\* ------------------------------------------------------------------ inputs

\* Database names: one EventLog instance (one Dexie database) per name.
Instances == {"dbA", "dbB"}

\* spaceId inputs that pass validation, and one that is blank after trim().
Spaces == {"s", "t"}

BlankSpace == " "

SpaceInputs == Spaces \cup {BlankSpace}

CallIds == 1 .. MaxCalls

\* ------------------------------------------------------------------ values

\* `?? Promise.resolve()`: no pending lock promise for the space.
NoLock == 0

\* previousHash of a genesis event.
Null == <<>>

\* `firstBrokenLink` is undefined / no event id.
NoEvent == 0

\* options.cursor and nextCursor are undefined.
NoCursor == <<>>

\* The optional atTimestamp argument is undefined.
NoTimestamp == -1

\* sha256(deterministicSerialize(x)): an injective tag of the hashed value.
sha256(x) == <<"sha256", x>>

\* timestamp and payload of the input of every writeEvent call: one ISO 8601
\* string (timestamps are numbered in their string order) and one JSON object.
WriteTimestamp == 1

WritePayload == "p"

\* deterministicSerialize of the hash input: JSON with the keys sorted (of
\* the eight fields the model carries six; type and version are left out).
deterministicSerialize(e) ==
    <<"id", e.id, "payload", e.payload, "previousHash", e.previousHash,
      "sequenceNumber", e.sequenceNumber, "spaceId", e.spaceId,
      "timestamp", e.timestamp>>

\* computeEventHash: the digest of the fields other than `hash`.
computeEventHash(e) == sha256(deterministicSerialize(e))

\* An event row: the fields without the hash, and the hash computed from them.
HashedEvent(id, spaceId, timestamp, seq, prev, payload) ==
    LET e == [id |-> id, spaceId |-> spaceId, timestamp |-> timestamp,
              sequenceNumber |-> seq, previousHash |-> prev,
              payload |-> payload]
    IN  [id |-> id, spaceId |-> spaceId, timestamp |-> timestamp,
         sequenceNumber |-> seq, previousHash |-> prev, payload |-> payload,
         hash |-> computeEventHash(e)]

\* generateUuidV4, called by writeEvent at every write: a value drawn at
\* random (crypto.randomUUID), whatever the configuration and the input; no
\* two calls draw the same value. The model names the value after the call
\* that drew it.
generateUuidV4(c) == c

\* The stored event built by writeEvent from the input and the chain state.
StoredEvent(id, spaceId, seq, prev) ==
    HashedEvent(id, spaceId, WriteTimestamp, seq, prev, WritePayload)

\* The event types of the log (VALID_EVENT_TYPES), and a tag that is none.
ValidEventTypes ==
    {"space_created", "space_evolved", "space_forked", "space_deleted",
     "state_changed", "action_invoked", "intent_submitted", "intent_queued",
     "intent_resolved", "user_feedback", "system_event"}

InvalidType == "not_a_valid_type"

\* timestamp inputs that are no instant: the empty string, and a string that
\* Date.parse cannot parse.
EmptyTimestamp == -2

UnparsableTimestamp == 0

\* version inputs, named by the JavaScript value: three numbers that are not
\* integers >= 1, among them one >= 1 and NaN, and a value that is no number.
VersionInputs == {"1", "0", "1.5", "NaN", "undefined"}

\* typeof v === 'number'
IsNumber(v) == v \in {"1", "0", "1.5", "NaN"}

\* v < 1 for a number v (false for NaN).
LessThanOne(v) == v = "0"

\* The input of a writeEvent call to a space that passes the validation of
\* the other fields.
WriteInput(spaceId) ==
    [spaceId |-> spaceId, type |-> "state_changed",
     timestamp |-> WriteTimestamp, version |-> "1"]

\* The inputs of writeEvent calls: every field valid or not.
WriteInputs ==
    [spaceId : {"s", " ", ""}, type : {"state_changed", InvalidType},
     timestamp : {WriteTimestamp, EmptyTimestamp, UnparsableTimestamp},
     version : VersionInputs]

\* The default reducer is replaced by one that keeps the order of the fold
\* visible: the state is the list of the ids of the events folded so far.
stateReducer(state, event) == Append(state, event.id)

\* ------------------------------------------------------------------ archives

\* Events of space "s" as another store has written them (foreign ids).
Foreign1 == StoredEvent(101, "s", 1, Null)

Foreign2 == StoredEvent(102, "s", 2, Foreign1.hash)

\* toArchiveEvent and JSON.stringify: the fields of an event in the fixed
\* insertion order id, spaceId, timestamp, sequenceNumber, hash, previousHash,
\* payload (type and version are not carried by the model).
toArchiveEvent(e) ==
    <<e.id, e.spaceId, e.timestamp, e.sequenceNumber, e.hash, e.previousHash,
      e.payload>>

\* JSON.stringify(events.map(toArchiveEvent)): the uncompressed body.
jsonBody(arr) == [k \in 1 .. Len(arr) |-> toArchiveEvent(arr[k])]

\* Lines 110-130 of the exporter: header, (compressed) body and footer hash.
EncodeArchive(arr) ==
    [magic |-> "RBLOG", version |-> 1, eventCount |-> Len(arr),
     body |-> jsonBody(arr), footer |-> sha256(jsonBody(arr))]

\* Faulty variant: the parsed event takes the timestamp of a fresh write.
toEventRestamped(raw) ==
    [id |-> raw[1], spaceId |-> raw[2], timestamp |-> WriteTimestamp,
     sequenceNumber |-> raw[4], hash |-> raw[5], previousHash |-> raw[6],
     payload |-> raw[7]]

\* toEvent of the importer: the event of one parsed element of the body.
toEvent(raw) ==
    [id |-> raw[1], spaceId |-> raw[2], timestamp |-> raw[3],
     sequenceNumber |-> raw[4], hash |-> raw[5], previousHash |-> raw[6],
     payload |-> raw[7]]

\* JSON.parse of the body and the conversion of its (shape-valid) elements.
parseBody(data) == [k \in 1 .. Len(data.body) |-> toEvent(data.body[k])]

\* Lines 121-212 of the importer: magic, version, footer hash, event count.
ValidFrame(data) ==
    /\ data.magic = "RBLOG"
    /\ data.version = 1
    /\ sha256(data.body) = data.footer
    /\ Len(data.body) = data.eventCount

\* No archive bytes.
NoBytes ==
    [magic |-> "", version |-> 0, eventCount |-> 0, body |-> <<>>,
     footer |-> Null]

\* Archives offered to importArchive; the last breaks the chain.
Archives ==
    {EncodeArchive(<<Foreign1>>), EncodeArchive(<<Foreign1, Foreign2>>),
     EncodeArchive(<<Foreign2>>)}

\* ------------------------------------------------------------------ state

VARIABLES
    calls,       \* call id -> the call's record (operation, position, locals)
    started,     \* number of calls issued so far
    events,      \* instance -> the rows of its `events` table
    snapshots,   \* instance -> the rows of its `snapshots` table
    spaceLocks,  \* spaceId -> id of the call whose nextLock is in the map
    resolved,    \* ids of the calls whose nextLock promise is resolved
    failures     \* number of record-store operations that have thrown

vars == <<calls, started, events, snapshots, spaceLocks, resolved, failures>>

\* A call slot that has not been issued yet; also the locals' initial values.
Idle ==
    [op |-> "none", inst |-> "dbA", spaceId |-> "s", pc |-> "idle",
     result |-> "pending", failedAt |-> "none",
     currentLock |-> NoLock, previousHash |-> Null, sequenceNumber |-> 0,
     hasSnapshot |-> FALSE, startAfterSeq |-> 0, state |-> <<>>,
     eventSequenceNumber |-> 0, eventsCompacted |-> 0,
     archive |-> <<>>, cursor |-> 0, importedEvents |-> 0,
     skippedDuplicates |-> 0,
     bytes |-> NoBytes, beforeDate |-> 0,
     eventId |-> NoEvent, offset |-> 0, valid |-> FALSE, totalEvents |-> 0,
     checkedEvents |-> 0, firstBrokenLink |-> NoEvent,
     atTimestamp |-> NoTimestamp, snaps |-> <<>>, field |-> "none",
     value |-> <<>>,
     kind |-> "none", limit |-> 0, order |-> "asc", rawCursor |-> NoCursor,
     total |-> 0, items |-> <<>>, nextCursor |-> NoCursor, range |-> {},
     input |-> WriteInput("s"), from |-> 0, to |-> 0]

\* A call that has returned: its locals are gone, its outcome stays.
Returned(call, result) ==
    [Idle EXCEPT !.op = call.op, !.inst = call.inst, !.spaceId = call.spaceId,
                 !.pc = "done", !.result = result,
                 !.failedAt = call.failedAt,
                 !.eventSequenceNumber = call.eventSequenceNumber,
                 !.eventsCompacted = call.eventsCompacted,
                 !.importedEvents = call.importedEvents,
                 !.skippedDuplicates = call.skippedDuplicates,
                 !.bytes = call.bytes,
                 !.beforeDate = call.beforeDate,
                 !.eventId = call.eventId,
                 !.valid = call.valid,
                 !.totalEvents = call.totalEvents,
                 !.checkedEvents = call.checkedEvents,
                 !.firstBrokenLink = call.firstBrokenLink,
                 !.atTimestamp = call.atTimestamp,
                 !.field = call.field,
                 !.value = call.value,
                 !.kind = call.kind,
                 !.limit = call.limit,
                 !.order = call.order,
                 !.rawCursor = call.rawCursor,
                 !.total = call.total,
                 !.items = call.items,
                 !.nextCursor = call.nextCursor,
                 !.range = call.range,
                 !.input = call.input,
                 !.from = call.from,
                 !.to = call.to]

Init ==
    /\ calls = [c \in CallIds |-> Idle]
    /\ started = 0
    /\ events = [i \in Instances |-> {}]
    /\ snapshots = [i \in Instances |-> {}]
    /\ spaceLocks = [s \in Spaces |-> NoLock]
    /\ resolved = {}
    /\ failures = 0

\* A call is issued in the next free slot.
Issue(c) ==
    /\ calls[c].pc = "idle"
    /\ started = c - 1
    /\ started' = c

\* No call is in flight: every issued call has returned.
Quiescent == \A c \in DOMAIN calls : calls[c].pc \in {"idle", "done"}

\* A record-store operation may throw while the failure budget lasts.
CanFail == failures < MaxFailures

\* ------------------------------------------------------------------ store reads

\* The rows of the [spaceId+sequenceNumber] index for one space.
SpaceEvents(i, s) == {e \in events[i] : e.spaceId = s}

\* Index order: by sequenceNumber, ties by primary key.
After(a, b) ==
    \/ a.sequenceNumber > b.sequenceNumber
    \/ a.sequenceNumber = b.sequenceNumber /\ a.id >= b.id

\* `.last()` of the [spaceId+sequenceNumber] range of one space.
LastEvent(i, s) ==
    CHOOSE e \in SpaceEvents(i, s) : \A f \in SpaceEvents(i, s) : After(e, f)

\* getLastEventHash
getLastEventHash(i, s) ==
    IF SpaceEvents(i, s) = {} THEN Null ELSE LastEvent(i, s).hash

\* getNextSequenceNumber
getNextSequenceNumber(i, s) ==
    IF SpaceEvents(i, s) = {} THEN 1 ELSE LastEvent(i, s).sequenceNumber + 1

\* The rows of the [spaceId+eventSequenceNumber] index for one space.
SpaceSnapshots(i, s) == {n \in snapshots[i] : n.spaceId = s}

SnapAfter(a, b) ==
    \/ a.eventSequenceNumber > b.eventSequenceNumber
    \/ a.eventSequenceNumber = b.eventSequenceNumber /\ a.id >= b.id

\* `.last()` of the [spaceId+eventSequenceNumber] range of one space.
LatestSnapshot(i, s) ==
    CHOOSE n \in SpaceSnapshots(i, s) :
        \A m \in SpaceSnapshots(i, s) : SnapAfter(n, m)

\* The events of a space with sequenceNumber >= from (a between() range).
EventsFrom(i, s, from) ==
    {e \in SpaceEvents(i, s) : e.sequenceNumber >= from}

\* toArray(): the rows of a set in index order.
RECURSIVE ToArray(_)
ToArray(es) ==
    IF es = {} THEN <<>>
    ELSE LET last == CHOOSE e \in es : \A f \in es : After(e, f)
         IN  Append(ToArray(es \ {last}), last)

\* The fold of createSnapshot, lines 68-71.
RECURSIVE Fold(_, _)
Fold(state, arr) ==
    IF arr = <<>> THEN state
    ELSE Fold(stateReducer(state, Head(arr)), Tail(arr))

\* ------------------------------------------------------------------ write path

\* String.prototype.trim() of the spaceId inputs.
trim(str) == IF str = BlankSpace THEN "" ELSE str

\* validateInput: the field in error, or "ok".
validateInput(input) ==
    IF trim(input.spaceId) = "" THEN "spaceId"
    ELSE IF input.type \notin ValidEventTypes THEN "type"
    ELSE IF input.timestamp = EmptyTimestamp THEN "timestamp"
    ELSE IF input.timestamp = UnparsableTimestamp THEN "timestamp"
    ELSE IF ~IsNumber(input.version) \/ LessThanOne(input.version)
         THEN "version"
    ELSE "ok"

\* Faulty variant: the new write never chains on the promise stored in the map.
CurrentLockUnchained(s) == NoLock

\* Faulty variant: one lock for the whole instance, the new write chains on
\* the pending promise of any space.
CurrentLockAnySpace(s) ==
    IF spaceLocks[s] # NoLock THEN spaceLocks[s]
    ELSE IF \E t \in Spaces : spaceLocks[t] # NoLock
         THEN spaceLocks[CHOOSE t \in Spaces : spaceLocks[t] # NoLock]
         ELSE NoLock

\* withSpaceLock, line 93: the promise the new write chains on.
CurrentLock(s) == spaceLocks[s]

\* Faulty variant: the write does not wait for the previous write's promise.
LockFreeNoWait(cur) == TRUE

\* Faulty variant: a write waits only while the map has no entry at all, so a
\* queued write overtakes the one it was chained on.
LockFreeOvertaking(cur) == cur = NoLock \/ cur \notin resolved

\* withSpaceLock, line 102: `await currentLock` lets the write go on.
LockFree(cur) == cur = NoLock \/ cur \in resolved

\* The facade's writeEvent, event-log.ts lines 75-81: the WriteEventInput it
\* hands to the event writer is a new object holding the fields of the
\* caller's event.
WriteEventInput(event) ==
    [spaceId |-> event.spaceId, type |-> event.type,
     timestamp |-> event.timestamp, version |-> event.version]

\* The facade calls writeEvent with an event: the input is built from it,
\* then validation, then the synchronous head of withSpaceLock up to
\* `await currentLock`.
WriteEventCall(c, i, event) ==
    LET input == WriteEventInput(event)
    IN  /\ Issue(c)
        /\ IF validateInput(input) # "ok"
           THEN /\ calls' = [calls EXCEPT ![c] =
                       Returned([Idle EXCEPT !.op = "write", !.inst = i,
                                             !.spaceId = input.spaceId,
                                             !.input = input,
                                             !.field = validateInput(input)],
                                "InvalidEvent")]
                /\ UNCHANGED spaceLocks
           ELSE /\ calls' = [calls EXCEPT ![c] =
                       [Idle EXCEPT !.op = "write", !.inst = i,
                                    !.spaceId = input.spaceId,
                                    !.input = input,
                                    !.pc = "awaitLock",
                                    !.currentLock = CurrentLock(input.spaceId)]]
                /\ spaceLocks' = [spaceLocks EXCEPT ![input.spaceId] = c]
        /\ UNCHANGED <<events, snapshots, resolved, failures>>

\* writeEvent called with an input whose type, timestamp and version are
\* valid.
WriteCall(c, i, s) == WriteEventCall(c, i, WriteInput(s))

\* `await currentLock` completes: the write enters the locked section.
WriteEnter(c) ==
    /\ calls[c].pc = "awaitLock"
    /\ LockFree(calls[c].currentLock)
    /\ calls' = [calls EXCEPT ![c].pc = "readHash"]
    /\ UNCHANGED <<started, events, snapshots, spaceLocks, resolved, failures>>

\* Faulty variant: the try block covers only the insert, a failing read escapes.
SectionFailureReadsUncaught(step) ==
    IF step = "add" THEN "DatabaseError" ELSE "threw"

\* The result of writeEvent when the store throws at a step of the try block.
SectionFailure(step) == "DatabaseError"

\* A store operation of the locked section throws: the catch block turns it
\* into the result, and the finally block of withSpaceLock runs next.
WriteFail(c) ==
    /\ calls[c].pc \in {"readHash", "readSeq", "add"}
    /\ CanFail
    /\ failures' = failures + 1
    /\ calls' = [calls EXCEPT ![c] =
           [@ EXCEPT !.pc = "release", !.failedAt = calls[c].pc,
                     !.result = SectionFailure(calls[c].pc)]]
    /\ UNCHANGED <<started, events, snapshots, spaceLocks, resolved>>

\* Step 1a: getLastEventHash.
WriteReadHash(c) ==
    /\ calls[c].pc = "readHash"
    /\ calls' = [calls EXCEPT ![c] =
           [@ EXCEPT !.pc = "readSeq",
                     !.previousHash =
                         getLastEventHash(calls[c].inst, calls[c].spaceId)]]
    /\ UNCHANGED <<started, events, snapshots, spaceLocks, resolved, failures>>

\* Step 1b: getNextSequenceNumber; step 2 (id, hash) is local to the call.
WriteReadSeq(c) ==
    /\ calls[c].pc = "readSeq"
    /\ calls' = [calls EXCEPT ![c] =
           [@ EXCEPT !.pc = "add",
                     !.sequenceNumber =
                         getNextSequenceNumber(calls[c].inst, calls[c].spaceId)]]
    /\ UNCHANGED <<started, events, snapshots, spaceLocks, resolved, failures>>

\* db.events.add of the write path.
AddEvent(store, e) == store \cup {e}

\* Step 3: db.events.add(storedEvent) and the Ok result.
WriteAdd(c) ==
    /\ calls[c].pc = "add"
    /\ LET e == StoredEvent(generateUuidV4(c), calls[c].spaceId,
                            calls[c].sequenceNumber, calls[c].previousHash)
       IN  events' = [events EXCEPT ![calls[c].inst] = AddEvent(@, e)]
    /\ calls' = [calls EXCEPT ![c] = [@ EXCEPT !.pc = "release", !.result = "ok"]]
    /\ UNCHANGED <<started, snapshots, spaceLocks, resolved, failures>>

\* Faulty variant: the promise is resolved on the success path only.
FinallyOnSuccess(rs, c, ok) == IF ok THEN rs \cup {c} ELSE rs

\* Faulty variant: the promise is resolved on the failure path only, so a
\* successful write keeps the lock while the facade runs its hook.
FinallyOnFailure(rs, c, ok) == IF ok THEN rs ELSE rs \cup {c}

\* finally, line 108: resolve the call's nextLock.
Finally(rs, c, ok) == rs \cup {c}

\* Faulty variant: the map entry is dropped whoever set it.
CleanUpAlways(locks, s, c) == [locks EXCEPT ![s] = NoLock]

\* finally, lines 110-112: drop the map entry if it is still this call's.
CleanUp(locks, s, c) ==
    IF locks[s] = c THEN [locks EXCEPT ![s] = NoLock] ELSE locks

\* The finally block of withSpaceLock; then writeEvent returns to the facade,
\* which goes on to the auto-snapshot check only after a successful write.
WriteRelease(c) ==
    /\ calls[c].pc = "release"
    /\ resolved' = Finally(resolved, c, calls[c].result = "ok")
    /\ spaceLocks' = CleanUp(spaceLocks, calls[c].spaceId, c)
    /\ calls' = [calls EXCEPT ![c] =
           IF calls[c].result = "ok"
           THEN [@ EXCEPT !.pc = "hookSnapshot"]
           ELSE Returned(@, calls[c].result)]
    /\ UNCHANGED <<started, events, snapshots, failures>>

\* ------------------------------------------------------------------ auto-snapshot hook

\* shouldAutoSnapshot, lines 144-149: the latest snapshot of the space.
HookSnapshot(c) ==
    /\ calls[c].pc = "hookSnapshot"
    /\ LET i == calls[c].inst
           s == calls[c].spaceId
       IN  calls' = [calls EXCEPT ![c] =
               [@ EXCEPT !.pc = "hookCount",
                         !.startAfterSeq =
                             IF SpaceSnapshots(i, s) = {} THEN 0
                             ELSE LatestSnapshot(i, s).eventSequenceNumber]]
    /\ UNCHANGED <<started, events, snapshots, spaceLocks, resolved, failures>>

\* Faulty variant: a snapshot is due only beyond the interval.
DueBeyondInterval(eventsSinceSnapshot) ==
    eventsSinceSnapshot > SnapshotInterval

\* shouldAutoSnapshot, line 157: a snapshot is due.
Due(eventsSinceSnapshot) == eventsSinceSnapshot >= SnapshotInterval

\* shouldAutoSnapshot, lines 152-157, and the facade's `if (shouldSnap)`.
HookCount(c) ==
    /\ calls[c].pc = "hookCount"
    /\ LET eventsSinceSnapshot ==
               Cardinality(EventsFrom(calls[c].inst, calls[c].spaceId,
                                      calls[c].startAfterSeq + 1))
       IN  calls' = [calls EXCEPT ![c] =
               IF Due(eventsSinceSnapshot)
               THEN [@ EXCEPT !.pc = "snapLatest", !.startAfterSeq = 0]
               ELSE Returned(@, "ok")]
    /\ UNCHANGED <<started, events, snapshots, spaceLocks, resolved, failures>>

\* What the facade's writeEvent does when shouldAutoSnapshot throws: nothing
\* catches it, so the promise of the facade call rejects.
HookFailure == "threw"

\* A store operation of shouldAutoSnapshot throws.
HookFail(c) ==
    /\ calls[c].pc \in {"hookSnapshot", "hookCount"}
    /\ CanFail
    /\ failures' = failures + 1
    /\ calls' = [calls EXCEPT ![c] =
           Returned([@ EXCEPT !.failedAt = calls[c].pc], HookFailure)]
    /\ UNCHANGED <<started, events, snapshots, spaceLocks, resolved>>

\* ------------------------------------------------------------------ createSnapshot

\* What the caller of createSnapshot returns for its result r: the hook of
\* the facade's writeEvent ignores it, createSnapshot and compact pass it on.
SnapshotOutcome(call, r) == IF call.op = "write" THEN "ok" ELSE r

\* The facade calls createSnapshot; it runs to its first await.
CreateSnapshotCall(c, i, s) ==
    /\ Issue(c)
    /\ calls' = [calls EXCEPT ![c] =
           [Idle EXCEPT !.op = "createSnapshot", !.inst = i, !.spaceId = s,
                        !.pc = "snapLatest"]]
    /\ UNCHANGED <<events, snapshots, spaceLocks, resolved, failures>>

\* Lines 36-47: the latest snapshot of the space, its state and sequence.
SnapLatest(c) ==
    /\ calls[c].pc = "snapLatest"
    /\ LET i == calls[c].inst
           s == calls[c].spaceId
           found == SpaceSnapshots(i, s) # {}
       IN  calls' = [calls EXCEPT ![c] =
               [@ EXCEPT !.pc = "snapEvents",
                         !.hasSnapshot = found,
                         !.state = IF found THEN LatestSnapshot(i, s).state
                                   ELSE <<>>,
                         !.startAfterSeq =
                             IF found
                             THEN LatestSnapshot(i, s).eventSequenceNumber
                             ELSE 0]]
    /\ UNCHANGED <<started, events, snapshots, spaceLocks, resolved, failures>>

\* Lines 50-93: the events after the snapshot, the two SNAPSHOT_FAILED
\* returns, the fold and the sequence number of the last event folded.
SnapEvents(c) ==
    /\ calls[c].pc = "snapEvents"
    /\ LET arr == ToArray(EventsFrom(calls[c].inst, calls[c].spaceId,
                                     calls[c].startAfterSeq + 1))
       IN  calls' = [calls EXCEPT ![c] =
               IF arr = <<>>
               THEN Returned(@, SnapshotOutcome(@, "SnapshotFailed"))
               ELSE [@ EXCEPT !.pc = "snapAdd",
                              !.state = Fold(calls[c].state, arr),
                              !.eventSequenceNumber =
                                  arr[Len(arr)].sequenceNumber]]
    /\ UNCHANGED <<started, events, snapshots, spaceLocks, resolved, failures>>

\* The row createSnapshot stores, lines 95-102.
StoredSnapshot(id, spaceId, eventSequenceNumber, state) ==
    [id |-> id, spaceId |-> spaceId,
     eventSequenceNumber |-> eventSequenceNumber,
     state |-> state, hash |-> sha256(state)]

\* Faulty variant: compaction deletes the events its snapshot covers.
EventsDroppedByCompact(store, s, upTo) ==
    {e \in store : ~(e.spaceId = s /\ e.sequenceNumber <= upTo)}

\* compact, lines 91-104: once the snapshot is created the report is built;
\* the events the snapshot covers stay in the events table.
EventsAfterCompact(store, s, upTo) == store

\* Line 104: db.snapshots.add, and the Ok result; a compact call goes on to
\* its report.
SnapAdd(c) ==
    /\ calls[c].pc = "snapAdd"
    /\ snapshots' = [snapshots EXCEPT ![calls[c].inst] =
           @ \cup {StoredSnapshot(c, calls[c].spaceId,
                                  calls[c].eventSequenceNumber,
                                  calls[c].state)}]
    /\ events' = [events EXCEPT ![calls[c].inst] =
           IF calls[c].op = "compact"
           THEN EventsAfterCompact(@, calls[c].spaceId,
                                   calls[c].eventSequenceNumber)
           ELSE @]
    /\ calls' = [calls EXCEPT ![c] = Returned(@, SnapshotOutcome(@, "ok"))]
    /\ UNCHANGED <<started, spaceLocks, resolved, failures>>

\* A store operation of createSnapshot throws: the catch block, lines 116-125.
SnapFail(c) ==
    /\ calls[c].pc \in {"snapLatest", "snapEvents", "snapAdd"}
    /\ CanFail
    /\ failures' = failures + 1
    /\ calls' = [calls EXCEPT ![c] =
           Returned([@ EXCEPT !.failedAt = calls[c].pc,
                              !.eventSequenceNumber = 0],
                    SnapshotOutcome(@, "DatabaseError"))]
    /\ UNCHANGED <<started, events, snapshots, spaceLocks, resolved>>

\* ------------------------------------------------------------------ compact

\* compact is called; it runs to its first await.
CompactCall(c, i, s) ==
    /\ Issue(c)
    /\ calls' = [calls EXCEPT ![c] =
           [Idle EXCEPT !.op = "compact", !.inst = i, !.spaceId = s,
                        !.pc = "compactTotal"]]
    /\ UNCHANGED <<events, snapshots, spaceLocks, resolved, failures>>

\* Lines 35-49: the number of events of the space.
CompactTotal(c) ==
    /\ calls[c].pc = "compactTotal"
    /\ calls' = [calls EXCEPT ![c] =
           IF SpaceEvents(calls[c].inst, calls[c].spaceId) = {}
           THEN Returned(@, "SnapshotFailed")
           ELSE [@ EXCEPT !.pc = "compactLatest"]]
    /\ UNCHANGED <<started, events, snapshots, spaceLocks, resolved, failures>>

\* Lines 52-57: the sequence number of the latest snapshot.
CompactLatest(c) ==
    /\ calls[c].pc = "compactLatest"
    /\ LET i == calls[c].inst
           s == calls[c].spaceId
       IN  calls' = [calls EXCEPT ![c] =
               [@ EXCEPT !.pc = "compactSince",
                         !.startAfterSeq =
                             IF SpaceSnapshots(i, s) = {} THEN 0
                             ELSE LatestSnapshot(i, s).eventSequenceNumber]]
    /\ UNCHANGED <<started, events, snapshots, spaceLocks, resolved, failures>>

\* Lines 60-74: the number of events since the latest snapshot.
CompactSince(c) ==
    /\ calls[c].pc = "compactSince"
    /\ LET eventsSinceSnapshot ==
               Cardinality(EventsFrom(calls[c].inst, calls[c].spaceId,
                                      calls[c].startAfterSeq + 1))
       IN  calls' = [calls EXCEPT ![c] =
               IF eventsSinceSnapshot = 0
               THEN Returned(@, "SnapshotFailed")
               ELSE [@ EXCEPT !.pc = "compactEvents",
                              !.eventsCompacted = eventsSinceSnapshot]]
    /\ UNCHANGED <<started, events, snapshots, spaceLocks, resolved, failures>>

\* Lines 77-92: the events to compact are read for the byte estimate, then
\* createSnapshot is called and runs to its first await.
CompactEvents(c) ==
    /\ calls[c].pc = "compactEvents"
    /\ calls' = [calls EXCEPT ![c] =
           [@ EXCEPT !.pc = "snapLatest", !.startAfterSeq = 0]]
    /\ UNCHANGED <<started, events, snapshots, spaceLocks, resolved, failures>>

\* A store operation of compact throws: the catch block, lines 105-114.
CompactFail(c) ==
    /\ calls[c].pc \in {"compactTotal", "compactLatest", "compactSince",
                        "compactEvents"}
    /\ CanFail
    /\ failures' = failures + 1
    /\ calls' = [calls EXCEPT ![c] =
           Returned([@ EXCEPT !.failedAt = calls[c].pc,
                              !.eventsCompacted = 0], "DatabaseError")]
    /\ UNCHANGED <<started, events, snapshots, spaceLocks, resolved>>

\* ------------------------------------------------------------------ importArchive

\* verifyChainLinks: the 0-based index of the first broken link, or -1.
verifyChainLinks(arr) ==
    LET broken == {k \in 1 .. Len(arr) :
                      IF k = 1 THEN arr[k].previousHash # Null
                      ELSE arr[k].previousHash # arr[k - 1].hash}
    IN  IF broken = {} THEN -1
        ELSE (CHOOSE k \in broken : \A j \in broken : k <= j) - 1

\* Array.prototype.sort by sequenceNumber (stable): insertion of x.
RECURSIVE InsertBySeq(_, _)
InsertBySeq(sorted, x) ==
    IF sorted = <<>> THEN <<x>>
    ELSE IF sorted[Len(sorted)].sequenceNumber <= x.sequenceNumber
         THEN Append(sorted, x)
         ELSE Append(InsertBySeq(SubSeq(sorted, 1, Len(sorted) - 1), x),
                     sorted[Len(sorted)])

RECURSIVE SortBySeq(_)
SortBySeq(arr) ==
    IF arr = <<>> THEN <<>>
    ELSE InsertBySeq(SortBySeq(SubSeq(arr, 1, Len(arr) - 1)), arr[Len(arr)])

\* Lines 229-256: the events of each space, sorted, form an intact chain.
ArchiveChainsIntact(a) ==
    \A s \in {a[k].spaceId : k \in 1 .. Len(a)} :
        verifyChainLinks(
            SortBySeq(SelectSeq(a, LAMBDA e : e.spaceId = s))) = -1

\* The loop of lines 262-273 moves on to the next event, or the report is
\* returned.
ImportAdvance(call) ==
    IF call.cursor >= Len(call.archive)
    THEN Returned(call, "ok")
    ELSE [call EXCEPT !.pc = "importGet", !.cursor = call.cursor + 1]

\* importArchive is called: the checks that need no store (frame, chain
\* links of the parsed events), then the loop runs to its first await.
ImportCall(c, i, data) ==
    /\ Issue(c)
    /\ calls' = [calls EXCEPT ![c] =
           LET call == [Idle EXCEPT !.op = "import", !.inst = i,
                                    !.bytes = data]
           IN  IF ~ValidFrame(data)
               THEN Returned(call, "ImportFailed")
               ELSE IF ~ArchiveChainsIntact(parseBody(data))
                    THEN Returned(call, "ImportFailed")
                    ELSE ImportAdvance(
                             [call EXCEPT !.archive = parseBody(data)])]
    /\ UNCHANGED <<events, snapshots, spaceLocks, resolved, failures>>

\* Faulty variant: the lookup by id finds nothing.
ExistingNever(i, id) == FALSE

\* Line 263: db.events.get(event.id) finds a stored event.
Existing(i, id) == \E x \in events[i] : x.id = id

\* Lines 263-267: db.events.get(event.id) and the duplicate count.
ImportGet(c) ==
    /\ calls[c].pc = "importGet"
    /\ LET e == calls[c].archive[calls[c].cursor]
       IN  calls' = [calls EXCEPT ![c] =
               IF Existing(calls[c].inst, e.id)
               THEN ImportAdvance([@ EXCEPT !.skippedDuplicates = @ + 1])
               ELSE [@ EXCEPT !.pc = "importAdd"]]
    /\ UNCHANGED <<started, events, snapshots, spaceLocks, resolved, failures>>

\* Lines 270-272: db.events.add(storedEvent); the primary key is unique, so
\* adding an id that is stored by now throws into the catch block.
ImportAdd(c) ==
    /\ calls[c].pc = "importAdd"
    /\ LET e == calls[c].archive[calls[c].cursor]
       IN  IF \E x \in events[calls[c].inst] : x.id = e.id
           THEN /\ calls' = [calls EXCEPT ![c] = Returned(@, "ImportFailed")]
                /\ UNCHANGED events
           ELSE /\ events' = [events EXCEPT ![calls[c].inst] = AddEvent(@, e)]
                /\ calls' = [calls EXCEPT ![c] =
                       ImportAdvance([@ EXCEPT !.importedEvents = @ + 1])]
    /\ UNCHANGED <<started, snapshots, spaceLocks, resolved, failures>>

\* A store operation of the import loop throws: the catch block, lines
\* 282-290.
ImportFail(c) ==
    /\ calls[c].pc \in {"importGet", "importAdd"}
    /\ CanFail
    /\ failures' = failures + 1
    /\ calls' = [calls EXCEPT ![c] =
           Returned([@ EXCEPT !.failedAt = calls[c].pc], "ImportFailed")]
    /\ UNCHANGED <<started, events, snapshots, spaceLocks, resolved>>

\* ------------------------------------------------------------------ exportArchive

\* A timestamp later than that of the default write input, and the
\* timestamps of the events written before an archive is exported.
LaterTimestamp == 2

Timestamps == {WriteTimestamp, LaterTimestamp}

\* beforeDate inputs: a string that `new Date` cannot parse, and two dates.
InvalidDate == 0

DateInputs == {InvalidDate, LaterTimestamp, LaterTimestamp + 1}

\* exportArchive is called: the date is validated and the read is started.
ExportCall(c, i, s, beforeDate) ==
    /\ Issue(c)
    /\ calls' = [calls EXCEPT ![c] =
           LET call == [Idle EXCEPT !.op = "export", !.inst = i,
                                    !.spaceId = s, !.beforeDate = beforeDate]
           IN  IF beforeDate = InvalidDate
               THEN Returned(call, "InvalidQuery")
               ELSE [call EXCEPT !.pc = "exportRead"]]
    /\ UNCHANGED <<events, snapshots, spaceLocks, resolved, failures>>

\* Lines 81-132: the events of the space in index order, the filter by
\* timestamp, the chain check of the selection, and the archive; what
\* exportArchive returns when it reads the store as it is.
exportArchive(i, s, beforeDate) ==
    LET storedEvents == ToArray(SpaceEvents(i, s))
        filtered == SelectSeq(storedEvents,
                              LAMBDA e : e.timestamp < beforeDate)
        brokenIndex == verifyChainLinks(filtered)
    IN  IF brokenIndex >= 0
        THEN [result |-> "IntegrityViolation", bytes |-> NoBytes,
              eventId |-> filtered[brokenIndex + 1].id]
        ELSE [result |-> "ok", bytes |-> EncodeArchive(filtered),
              eventId |-> NoEvent]

\* The read of exportArchive completes and the call returns.
ExportRead(c) ==
    /\ calls[c].pc = "exportRead"
    /\ LET r == exportArchive(calls[c].inst, calls[c].spaceId,
                              calls[c].beforeDate)
       IN  calls' = [calls EXCEPT ![c] =
               Returned([@ EXCEPT !.bytes = r.bytes, !.eventId = r.eventId],
                        r.result)]
    /\ UNCHANGED <<started, events, snapshots, spaceLocks, resolved, failures>>

\* The store read of exportArchive throws: the catch block, lines 133-142.
ExportFail(c) ==
    /\ calls[c].pc = "exportRead"
    /\ CanFail
    /\ failures' = failures + 1
    /\ calls' = [calls EXCEPT ![c] =
           Returned([@ EXCEPT !.failedAt = calls[c].pc], "DatabaseError")]
    /\ UNCHANGED <<started, events, snapshots, spaceLocks, resolved>>

\* ------------------------------------------------------------------ verifyIntegrity

\* The chain of space "s" after n sequential writeEvent calls whose inputs
\* carry the timestamps ts[1] .. ts[n]; the ids are those of earlier calls.
RECURSIVE WrittenChain(_)
WrittenChain(ts) ==
    IF ts = <<>> THEN <<>>
    ELSE LET n == Len(ts)
             before == WrittenChain(SubSeq(ts, 1, n - 1))
             prev == IF n = 1 THEN Null ELSE before[n - 1].hash
         IN  Append(before,
                    HashedEvent(10 + n, "s", ts[n], n, prev, WritePayload))

\* The rows of a chain.
Rows(chain) == {chain[k] : k \in 1 .. Len(chain)}

\* Line 79-84: .offset(offset).limit(CHUNK_SIZE).toArray() over the index.
ChunkAt(i, s, offset) ==
    LET arr == ToArray(SpaceEvents(i, s))
        upTo == IF offset + ChunkSize < Len(arr) THEN offset + ChunkSize
                ELSE Len(arr)
    IN  SubSeq(arr, offset + 1, upTo)

\* Faulty variant: the first event of every chunk is taken for the genesis.
IsGenesisEveryChunk(checkedEvents) == TRUE

\* Line 86: the chunk starts with the genesis event if nothing was checked.
IsGenesis(checkedEvents) == checkedEvents = 0

\* Faulty variant: the stored hash is not compared with the recomputed one.
HashMismatchIgnored(e) == FALSE

\* verifyChunk, lines 230-232: the recomputed hash differs from the stored.
HashMismatch(e) == computeEventHash(e) # e.hash

\* verifyChunk, lines 200-228: the previousHash link of chunk[k] is broken.
LinkBroken(chunk, k, expectedPreviousHash, isGenesis) ==
    IF isGenesis /\ k = 1 THEN chunk[k].previousHash # Null
    ELSE chunk[k].previousHash #
             (IF k = 1 THEN expectedPreviousHash ELSE chunk[k - 1].hash)

\* verifyChunk: the loop stops at the first event whose link or hash is
\* broken; otherwise it hands on the hash of the last event of the chunk.
verifyChunk(chunk, expectedPreviousHash, isGenesis) ==
    LET broken == {k \in 1 .. Len(chunk) :
                      \/ LinkBroken(chunk, k, expectedPreviousHash, isGenesis)
                      \/ HashMismatch(chunk[k])}
    IN  IF broken = {}
        THEN [checkedInChunk |-> Len(chunk),
              lastHash |-> IF chunk = <<>> THEN Null
                           ELSE chunk[Len(chunk)].hash,
              brokenLink |-> NoEvent]
        ELSE LET k == CHOOSE j \in broken : \A l \in broken : j <= l
             IN  [checkedInChunk |-> k,
                  lastHash |-> chunk[k].hash,
                  brokenLink |-> chunk[k].id]

\* verifyIntegrity(spaceId) is called: verifySpace runs to the count.
VerifyCall(c, i, s) ==
    /\ Issue(c)
    /\ calls' = [calls EXCEPT ![c] =
           [Idle EXCEPT !.op = "verify", !.inst = i, !.spaceId = s,
                        !.pc = "verifyCount"]]
    /\ UNCHANGED <<events, snapshots, spaceLocks, resolved, failures>>

\* verifySpace, lines 59-75: the count, and the report of an empty space.
VerifyCount(c) ==
    /\ calls[c].pc = "verifyCount"
    /\ LET totalEvents ==
               Cardinality(SpaceEvents(calls[c].inst, calls[c].spaceId))
       IN  calls' = [calls EXCEPT ![c] =
               IF totalEvents = 0
               THEN Returned([@ EXCEPT !.valid = TRUE], "ok")
               ELSE [@ EXCEPT !.pc = "verifyChunk",
                              !.totalEvents = totalEvents]]
    /\ UNCHANGED <<started, events, snapshots, spaceLocks, resolved, failures>>

\* verifySpace, lines 77-113: one turn of the loop, from the chunk read to
\* the next chunk read or to the report.
VerifyChunk(c) ==
    /\ calls[c].pc = "verifyChunk"
    /\ LET call == calls[c]
           chunk == ChunkAt(call.inst, call.spaceId, call.offset)
           r == verifyChunk(chunk, call.previousHash,
                            IsGenesis(call.checkedEvents))
           checked == call.checkedEvents + r.checkedInChunk
       IN  calls' = [calls EXCEPT ![c] =
               IF r.brokenLink # NoEvent
               THEN Returned([@ EXCEPT !.checkedEvents = checked,
                                       !.firstBrokenLink = r.brokenLink],
                             "ok")
               ELSE IF call.offset + ChunkSize < call.totalEvents
                    THEN [@ EXCEPT !.checkedEvents = checked,
                                   !.previousHash = r.lastHash,
                                   !.offset = call.offset + ChunkSize]
                    ELSE Returned([@ EXCEPT !.checkedEvents = checked,
                                            !.valid = TRUE], "ok")]
    /\ UNCHANGED <<started, events, snapshots, spaceLocks, resolved, failures>>

\* A store read of verifySpace throws: the catch block of verifyIntegrity,
\* lines 39-48.
VerifyFail(c) ==
    /\ calls[c].pc \in {"verifyCount", "verifyChunk"}
    /\ CanFail
    /\ failures' = failures + 1
    /\ calls' = [calls EXCEPT ![c] =
           Returned([Idle EXCEPT !.op = "verify", !.inst = calls[c].inst,
                                 !.spaceId = calls[c].spaceId,
                                 !.failedAt = calls[c].pc], "DatabaseError")]
    /\ UNCHANGED <<started, events, snapshots, spaceLocks, resolved>>

\* ------------------------------------------------------------------ reconstructState

\* toArray() of the [spaceId+eventSequenceNumber] index: the snapshots of a
\* set in index order.
RECURSIVE SnapToArray(_)
SnapToArray(ns) ==
    IF ns = {} THEN <<>>
    ELSE LET last == CHOOSE n \in ns : \A m \in ns : SnapAfter(n, m)
         IN  Append(SnapToArray(ns \ {last}), last)

\* `.first()` of a range of the [spaceId+sequenceNumber] index.
FirstOf(es) == ToArray(es)[1]

\* Lines 137-139: the events up to atTimestamp, all of them without one.
UpTo(arr, atTimestamp) ==
    IF atTimestamp = NoTimestamp THEN arr
    ELSE SelectSeq(arr, LAMBDA e : e.timestamp <= atTimestamp)

\* reconstructState is called: lines 36-48, the timestamp is validated and
\* the count is started.
ReconstructCall(c, i, s, atTimestamp) ==
    /\ Issue(c)
    /\ calls' = [calls EXCEPT ![c] =
           LET call == [Idle EXCEPT !.op = "reconstruct", !.inst = i,
                                    !.spaceId = s,
                                    !.atTimestamp = atTimestamp]
           IN  IF atTimestamp = InvalidDate
               THEN Returned([call EXCEPT !.field = "atTimestamp"],
                             "InvalidQuery")
               ELSE [call EXCEPT !.pc = "reconCount"]]
    /\ UNCHANGED <<events, snapshots, spaceLocks, resolved, failures>>

\* Lines 51-61: the count of the events of the space.
ReconCount(c) ==
    /\ calls[c].pc = "reconCount"
    /\ calls' = [calls EXCEPT ![c] =
           IF SpaceEvents(calls[c].inst, calls[c].spaceId) = {}
           THEN Returned([@ EXCEPT !.field = "spaceId"], "InvalidQuery")
           ELSE IF calls[c].atTimestamp # NoTimestamp
                THEN [@ EXCEPT !.pc = "reconFirst"]
                ELSE [@ EXCEPT !.pc = "reconLatest"]]
    /\ UNCHANGED <<started, events, snapshots, spaceLocks, resolved, failures>>

\* Lines 64-80: the timestamp must not predate the first event of the space.
ReconFirst(c) ==
    /\ calls[c].pc = "reconFirst"
    /\ LET es == SpaceEvents(calls[c].inst, calls[c].spaceId)
       IN  calls' = [calls EXCEPT ![c] =
               IF es # {} /\ calls[c].atTimestamp < FirstOf(es).timestamp
               THEN Returned([@ EXCEPT !.field = "atTimestamp"],
                             "InvalidQuery")
               ELSE [@ EXCEPT !.pc = "reconSnapshots"]]
    /\ UNCHANGED <<started, events, snapshots, spaceLocks, resolved, failures>>

\* The loop of lines 99-111 moves on to the next snapshot, or the events
\* after the best snapshot are read.
ReconAdvance(call) ==
    IF call.cursor >= Len(call.snaps)
    THEN [call EXCEPT !.pc = "reconEvents"]
    ELSE [call EXCEPT !.pc = "reconEventAt", !.cursor = call.cursor + 1]

\* Lines 89-92: the snapshots of the space.
ReconSnapshots(c) ==
    /\ calls[c].pc = "reconSnapshots"
    /\ calls' = [calls EXCEPT ![c] =
           ReconAdvance([@ EXCEPT !.snaps =
               SnapToArray(SpaceSnapshots(calls[c].inst, calls[c].spaceId))])]
    /\ UNCHANGED <<started, events, snapshots, spaceLocks, resolved, failures>>

\* Lines 101-110 and 113-116: the event at the snapshot's sequence number
\* decides whether the snapshot is the best one so far.
ReconEventAt(c) ==
    /\ calls[c].pc = "reconEventAt"
    /\ LET call == calls[c]
           snap == call.snaps[call.cursor]
           at == {e \in SpaceEvents(call.inst, call.spaceId) :
                     e.sequenceNumber = snap.eventSequenceNumber}
           better ==
               /\ at # {}
               /\ FirstOf(at).timestamp <= call.atTimestamp
               /\ (~call.hasSnapshot
                      \/ snap.eventSequenceNumber > call.startAfterSeq)
       IN  calls' = [calls EXCEPT ![c] =
               ReconAdvance(
                   IF better
                   THEN [@ EXCEPT !.hasSnapshot = TRUE,
                                  !.state = snap.state,
                                  !.startAfterSeq = snap.eventSequenceNumber]
                   ELSE @)]
    /\ UNCHANGED <<started, events, snapshots, spaceLocks, resolved, failures>>

\* Lines 119-127: without a timestamp, the latest snapshot of the space.
ReconLatest(c) ==
    /\ calls[c].pc = "reconLatest"
    /\ LET i == calls[c].inst
           s == calls[c].spaceId
           found == SpaceSnapshots(i, s) # {}
       IN  calls' = [calls EXCEPT ![c] =
               [@ EXCEPT !.pc = "reconEvents",
                         !.hasSnapshot = found,
                         !.state = IF found THEN LatestSnapshot(i, s).state
                                   ELSE <<>>,
                         !.startAfterSeq =
                             IF found
                             THEN LatestSnapshot(i, s).eventSequenceNumber
                             ELSE 0]]
    /\ UNCHANGED <<started, events, snapshots, spaceLocks, resolved, failures>>

\* Lines 131-147: the events after the snapshot point, the filter by
\* timestamp, the fold through the reducer, and the Ok result.
ReconEvents(c) ==
    /\ calls[c].pc = "reconEvents"
    /\ LET arr == ToArray(EventsFrom(calls[c].inst, calls[c].spaceId,
                                     calls[c].startAfterSeq + 1))
       IN  calls' = [calls EXCEPT ![c] =
               Returned([@ EXCEPT !.value =
                             Fold(calls[c].state,
                                  UpTo(arr, calls[c].atTimestamp))],
                        "ok")]
    /\ UNCHANGED <<started, events, snapshots, spaceLocks, resolved, failures>>

\* A store read of reconstructState throws: the catch block, lines 148-157.
ReconFail(c) ==
    /\ calls[c].pc \in {"reconCount", "reconFirst", "reconSnapshots",
                        "reconEventAt", "reconLatest", "reconEvents"}
    /\ CanFail
    /\ failures' = failures + 1
    /\ calls' = [calls EXCEPT ![c] =
           Returned([@ EXCEPT !.failedAt = calls[c].pc], "DatabaseError")]
    /\ UNCHANGED <<started, events, snapshots, spaceLocks, resolved>>

\* ------------------------------------------------------------------ queries

\* MAX_LIMIT (1000) and DEFAULT_LIMIT (100) of the query engine, scaled down.
MaxLimit == 2

DefaultLimit == 1

\* maxEventsPerQuery of the configuration (default 1000), set below MAX_LIMIT.
maxEventsPerQuery == 1

\* options.limit is undefined.
NoLimit == -1

\* options.limit inputs: none, one below 1, one in range, one above MAX_LIMIT.
LimitInputs == {NoLimit, 0, 1, MaxLimit + 1}

\* encodeCursor: the cursor string of a sequence number and an id.
encodeCursor(seq, id) == <<seq, id>>

\* A cursor string that decodeCursor cannot decode.
InvalidCursor == <<0>>

\* decodeCursor: the payload of a cursor string, or null.
decodeCursor(raw) ==
    IF Len(raw) = 2 THEN [seq |-> raw[1], id |-> raw[2]] ELSE Null

\* resolveOptions, line 66: the effective limit of a page.
resolveLimit(limit) ==
    LET given == IF limit = NoLimit THEN DefaultLimit ELSE limit
        atLeastOne == IF given < 1 THEN 1 ELSE given
    IN  IF atLeastOne > MaxLimit THEN MaxLimit ELSE atLeastOne

\* Collection.reverse() and the descending sort.
Reverse(arr) == [k \in 1 .. Len(arr) |-> arr[Len(arr) + 1 - k]]

\* Faulty variant: the rows come in descending order whatever was requested.
OrderedDescending(es, order) == Reverse(ToArray(es))

\* Rows in the requested order: by sequenceNumber, ties by id.
Ordered(es, order) ==
    IF order = "asc" THEN ToArray(es) ELSE Reverse(ToArray(es))

\* Lines 123-130: the page of at most `limit` rows and the cursor of its
\* last row if more rows were read.
Paginate(rows, limit) ==
    LET hasMore == Len(rows) > limit
        pageRows == IF hasMore THEN SubSeq(rows, 1, limit) ELSE rows
    IN  [items |-> pageRows,
         nextCursor |->
             IF hasMore /\ pageRows # <<>>
             THEN encodeCursor(pageRows[Len(pageRows)].sequenceNumber,
                               pageRows[Len(pageRows)].id)
             ELSE NoCursor]

\* Faulty variant: the range starts one row beyond the row after the cursor.
SpaceRangeSkipping(i, s, order, cursor) ==
    {e \in SpaceEvents(i, s) :
        \/ cursor = Null
        \/ order = "asc" /\ e.sequenceNumber >= cursor.seq + 2
        \/ order = "desc" /\ e.sequenceNumber <= cursor.seq - 2}

\* queryBySpace, lines 107-114: the range of the [spaceId+sequenceNumber]
\* index the page is read from.
SpaceRange(i, s, order, cursor) ==
    {e \in SpaceEvents(i, s) :
        \/ cursor = Null
        \/ order = "asc" /\ e.sequenceNumber >= cursor.seq + 1
        \/ order = "desc" /\ e.sequenceNumber <= cursor.seq - 1}

\* queryByType, lines 164-183, for the type that every event of the model
\* has: all events of the store, after the cursor by (sequenceNumber, id).
TypeRange(i, order, cursor) ==
    {e \in events[i] :
        \/ cursor = Null
        \/ order = "asc"
             /\ \/ e.sequenceNumber > cursor.seq
                \/ e.sequenceNumber = cursor.seq /\ e.id > cursor.id
        \/ order = "desc"
             /\ \/ e.sequenceNumber < cursor.seq
                \/ e.sequenceNumber = cursor.seq /\ e.id < cursor.id}

\* queryByTime, lines 248-266: the events of the store with
\* from <= timestamp < to, after the cursor by (sequenceNumber, id).
TimeRange(i, from, to, order, cursor) ==
    {e \in TypeRange(i, order, cursor) :
        from <= e.timestamp /\ e.timestamp < to}

\* The rows a query selects from the store as it is; the key is the spaceId
\* of queryBySpace, the type of queryByType, <<from, to>> of queryByTime.
QueryRange(i, kind, s, order, cursor) ==
    IF kind = "space" THEN SpaceRange(i, s, order, cursor)
    ELSE IF kind = "time" THEN TimeRange(i, s[1], s[2], order, cursor)
    ELSE TypeRange(i, order, cursor)

\* The key of a query call.
QueryKey(call) ==
    IF call.kind = "time" THEN <<call.from, call.to>> ELSE call.spaceId

\* Lines 121-130 and 185-200: the page a query returns when it reads the
\* store as it is (reading limit + 1 rows of the range gives the same page).
QueryPage(i, kind, s, limit, order, cursor) ==
    Paginate(Ordered(QueryRange(i, kind, s, order, cursor), order), limit)

\* queryBySpace or queryByType is called: the options are resolved and the
\* cursor is validated; then the count is started.
QueryCall(c, i, kind, s, limit, order, rawCursor) ==
    /\ Issue(c)
    /\ calls' = [calls EXCEPT ![c] =
           LET call == [Idle EXCEPT !.op = "query", !.inst = i, !.kind = kind,
                                    !.spaceId = s,
                                    !.limit = resolveLimit(limit),
                                    !.order = order, !.rawCursor = rawCursor]
           IN  IF rawCursor # NoCursor /\ decodeCursor(rawCursor) = Null
               THEN Returned([call EXCEPT !.field = "cursor"], "InvalidQuery")
               ELSE [call EXCEPT !.pc = "queryCount"]]
    /\ UNCHANGED <<events, snapshots, spaceLocks, resolved, failures>>

\* queryByTime is called: from and to are validated, the options are
\* resolved and the cursor is validated; then the count is started.
QueryByTimeCall(c, i, from, to, limit, order, rawCursor) ==
    /\ Issue(c)
    /\ calls' = [calls EXCEPT ![c] =
           LET call == [Idle EXCEPT !.op = "query", !.inst = i,
                                    !.kind = "time",
                                    !.from = from, !.to = to,
                                    !.order = order, !.rawCursor = rawCursor]
           IN  IF from = InvalidDate
               THEN Returned([call EXCEPT !.field = "from"], "InvalidQuery")
               ELSE IF to = InvalidDate
               THEN Returned([call EXCEPT !.field = "to"], "InvalidQuery")
               ELSE IF rawCursor # NoCursor /\ decodeCursor(rawCursor) = Null
               THEN Returned([call EXCEPT !.limit = resolveLimit(limit),
                                          !.field = "cursor"],
                             "InvalidQuery")
               ELSE [call EXCEPT !.limit = resolveLimit(limit),
                                 !.pc = "queryCount"]]
    /\ UNCHANGED <<events, snapshots, spaceLocks, resolved, failures>>

\* Lines 104, 161 and 242-245: the total count of the matching events.
QueryCount(c) ==
    /\ calls[c].pc = "queryCount"
    /\ calls' = [calls EXCEPT ![c] =
           [@ EXCEPT !.pc = "queryRows",
                     !.total =
                         Cardinality(QueryRange(calls[c].inst, calls[c].kind,
                                                QueryKey(calls[c]), "asc",
                                                Null))]]
    /\ UNCHANGED <<started, events, snapshots, spaceLocks, resolved, failures>>

\* Lines 121-132, 168-202 and 248-285: the rows are read and the page is returned;
\* `range` keeps the ids of the rows that the read selected from.
QueryRows(c) ==
    /\ calls[c].pc = "queryRows"
    /\ LET call == calls[c]
           cursor == IF call.rawCursor = NoCursor THEN Null
                     ELSE decodeCursor(call.rawCursor)
           page == QueryPage(call.inst, call.kind, QueryKey(call), call.limit,
                             call.order, cursor)
       IN  calls' = [calls EXCEPT ![c] =
               Returned([@ EXCEPT !.items = page.items,
                                  !.nextCursor = page.nextCursor,
                                  !.range =
                                      {e.id : e \in QueryRange(
                                          call.inst, call.kind, QueryKey(call),
                                          call.order, cursor)}],
                        "ok")]
    /\ UNCHANGED <<started, events, snapshots, spaceLocks, resolved, failures>>

\* A store read of a query throws: the catch block, lines 133-141, 203-211,
\* 286-294.
QueryFail(c) ==
    /\ calls[c].pc \in {"queryCount", "queryRows"}
    /\ CanFail
    /\ failures' = failures + 1
    /\ calls' = [calls EXCEPT ![c] =
           Returned([@ EXCEPT !.failedAt = calls[c].pc, !.total = 0],
                    "DatabaseError")]
    /\ UNCHANGED <<started, events, snapshots, spaceLocks, resolved>>

\* ------------------------------------------------------------------ the store, altered from outside

\* Values that are not what the log wrote: a payload and a hash string.
AlteredPayload == "q"

ForgedHash == sha256(<<"forged">>)

\* The values a tool that edits the table may put into a field of a row.
FieldValues(i, field) ==
    IF field = "payload" THEN {WritePayload, AlteredPayload}
    ELSE {ForgedHash} \cup {x.hash : x \in events[i]}
             \cup (IF field = "previousHash" THEN {Null} ELSE {})

\* The table has not been edited from outside so far.
Untouched == \A u \in DOMAIN calls : calls[u].op \notin {"update", "delete"}

\* db.events.update(id, {field: value}) on the table, outside the library:
\* one field of one stored event gets another value; the tool edits the
\* table once in a behaviour.
UpdateCall(c, i, e, field, value) ==
    /\ Issue(c)
    /\ Untouched
    /\ e \in events[i]
    /\ field \in {"payload", "hash", "previousHash"}
    /\ value \in FieldValues(i, field)
    /\ e[field] # value
    /\ events' = [events EXCEPT ![i] =
           (@ \ {e}) \cup {[e EXCEPT ![field] = value]}]
    /\ calls' = [calls EXCEPT ![c] =
           Returned([Idle EXCEPT !.op = "update", !.inst = i,
                                 !.spaceId = e.spaceId, !.eventId = e.id],
                    "ok")]
    /\ UNCHANGED <<snapshots, spaceLocks, resolved, failures>>

\* db.events.delete(id) on the table, outside the library.
DeleteCall(c, i, e) ==
    /\ Issue(c)
    /\ Untouched
    /\ e \in events[i]
    /\ events' = [events EXCEPT ![i] = @ \ {e}]
    /\ calls' = [calls EXCEPT ![c] =
           Returned([Idle EXCEPT !.op = "delete", !.inst = i,
                                 !.spaceId = e.spaceId, !.eventId = e.id],
                    "ok")]
    /\ UNCHANGED <<snapshots, spaceLocks, resolved, failures>>

\* ------------------------------------------------------------------ specifications

\* The steps of calls in flight.
Step(c) ==
    \/ WriteEnter(c)
    \/ WriteFail(c)
    \/ WriteReadHash(c)
    \/ WriteReadSeq(c)
    \/ WriteAdd(c)
    \/ WriteRelease(c)
    \/ HookSnapshot(c)
    \/ HookCount(c)
    \/ HookFail(c)
    \/ SnapLatest(c)
    \/ SnapEvents(c)
    \/ SnapAdd(c)
    \/ SnapFail(c)

CompactStep(c) ==
    \/ CompactTotal(c)
    \/ CompactLatest(c)
    \/ CompactSince(c)
    \/ CompactEvents(c)
    \/ CompactFail(c)

ImportStep(c) ==
    \/ ImportGet(c)
    \/ ImportAdd(c)
    \/ ImportFail(c)

\* One EventLog instance; every operation.
Next ==
    \/ \E c \in CallIds, s \in SpaceInputs : WriteCall(c, "dbA", s)
    \/ \E c \in CallIds, s \in Spaces : CreateSnapshotCall(c, "dbA", s)
    \/ \E c \in CallIds, s \in Spaces : CompactCall(c, "dbA", s)
    \/ \E c \in CallIds, a \in Archives : ImportCall(c, "dbA", a)
    \/ \E c \in CallIds : Step(c)
    \/ \E c \in CallIds : CompactStep(c)
    \/ \E c \in CallIds : ImportStep(c)

Spec == Init /\ [][Next]_vars

\* One EventLog instance; writeEvent, createSnapshot and compact only.
NextWrites ==
    \/ \E c \in CallIds, s \in SpaceInputs : WriteCall(c, "dbA", s)
    \/ \E c \in CallIds, s \in Spaces : CreateSnapshotCall(c, "dbA", s)
    \/ \E c \in CallIds, s \in Spaces : CompactCall(c, "dbA", s)
    \/ \E c \in CallIds : Step(c)
    \/ \E c \in CallIds : CompactStep(c)

SpecWrites == Init /\ [][NextWrites]_vars

\* Two EventLog instances with distinct database names; writeEvent only.
NextInstances ==
    \/ \E c \in CallIds, i \in Instances, s \in SpaceInputs :
           WriteCall(c, i, s)
    \/ \E c \in CallIds : Step(c)

SpecInstances == Init /\ [][NextInstances]_vars

VerifyStep(c) ==
    \/ VerifyCount(c)
    \/ VerifyChunk(c)
    \/ VerifyFail(c)

\* The store holds a chain of space "s" written by earlier writeEvent calls.
InitVerify ==
    /\ calls = [c \in CallIds |-> Idle]
    /\ started = 0
    /\ \E n \in 0 .. MaxChain :
           events = [i \in Instances |->
                        IF i = "dbA"
                        THEN Rows(WrittenChain([k \in 1 .. n |-> WriteTimestamp]))
                        ELSE {}]
    /\ snapshots = [i \in Instances |-> {}]
    /\ spaceLocks = [s \in Spaces |-> NoLock]
    /\ resolved = {}
    /\ failures = 0

\* One EventLog instance: verifyIntegrity alongside writeEvent.
NextVerify ==
    \/ \E c \in CallIds, s \in SpaceInputs : WriteCall(c, "dbA", s)
    \/ \E c \in CallIds, s \in Spaces : VerifyCall(c, "dbA", s)
    \/ \E c \in CallIds : Step(c)
    \/ \E c \in CallIds : VerifyStep(c)

SpecVerify == InitVerify /\ [][NextVerify]_vars

\* One EventLog instance: verifyIntegrity, and a tool that edits or deletes
\* a row of the events table.
NextTamper ==
    \/ \E c \in CallIds, s \in Spaces : VerifyCall(c, "dbA", s)
    \/ \E c \in CallIds, e \in events["dbA"],
          field \in {"payload", "hash", "previousHash"} :
           \E value \in FieldValues("dbA", field) :
               UpdateCall(c, "dbA", e, field, value)
    \/ \E c \in CallIds, e \in events["dbA"] : DeleteCall(c, "dbA", e)
    \/ \E c \in CallIds : VerifyStep(c)

SpecTamper == InitVerify /\ [][NextTamper]_vars

ExportStep(c) ==
    \/ ExportRead(c)
    \/ ExportFail(c)

\* An event of space "s" whose hash field is not the hash of its fields.
ForgedEvent ==
    [HashedEvent(103, "s", WriteTimestamp, 1, Null, WritePayload)
        EXCEPT !.hash = ForgedHash]

\* Archives made elsewhere: a chain of two events, a forged event, and an
\* archive whose footer is the hash of another body.
ForeignArchives ==
    {EncodeArchive(<<Foreign1, Foreign2>>), EncodeArchive(<<ForgedEvent>>),
     [EncodeArchive(<<Foreign1>>) EXCEPT !.footer = sha256(<<>>)]}

\* The archives that exportArchive returns for space "s" of store dbA, which
\* no call of the behaviour changes.
Exported ==
    {exportArchive("dbA", "s", d).bytes :
         d \in {x \in DateInputs \ {InvalidDate} :
                   exportArchive("dbA", "s", x).result = "ok"}}

\* The archives at hand: the foreign ones and those exported from dbA.
ArchiveInputs == ForeignArchives \cup Exported

\* Store dbA holds a chain of space "s" written by earlier writeEvent calls
\* whose timestamps do not decrease; store dbB is empty.
InitArchive ==
    /\ calls = [c \in CallIds |-> Idle]
    /\ started = 0
    /\ \E n \in 0 .. MaxChain :
           \E ts \in [1 .. n -> Timestamps] :
               /\ \A j, k \in 1 .. n : j < k => ts[j] <= ts[k]
               /\ events = [i \in Instances |->
                               IF i = "dbA" THEN Rows(WrittenChain(ts))
                               ELSE {}]
    /\ snapshots = [i \in Instances |-> {}]
    /\ spaceLocks = [s \in Spaces |-> NoLock]
    /\ resolved = {}
    /\ failures = 0

\* Two stores; exportArchive on either and importArchive on the second,
\* each call awaited before the next one is made.
NextArchive ==
    \/ \E c \in CallIds, i \in Instances, beforeDate \in DateInputs :
           Quiescent /\ ExportCall(c, i, "s", beforeDate)
    \/ \E c \in CallIds, data \in ArchiveInputs :
           Quiescent /\ ImportCall(c, "dbB", data)
    \/ \E c \in CallIds : ExportStep(c)
    \/ \E c \in CallIds : ImportStep(c)

SpecArchive == InitArchive /\ [][NextArchive]_vars

ReconStep(c) ==
    \/ ReconCount(c)
    \/ ReconFirst(c)
    \/ ReconSnapshots(c)
    \/ ReconEventAt(c)
    \/ ReconLatest(c)
    \/ ReconEvents(c)
    \/ ReconFail(c)

\* The snapshots that createSnapshot calls made while the chain of space "s"
\* was written: one for each length in K, with the ids of those calls.
WrittenSnapshots(chain, K) ==
    {StoredSnapshot(20 + k, "s", k, Fold(<<>>, SubSeq(chain, 1, k))) : k \in K}

\* atTimestamp inputs: none, a string that `new Date` cannot parse, and the
\* timestamps of the events.
TimestampInputs == {NoTimestamp, InvalidDate} \cup Timestamps

\* The store holds a chain of space "s" written by earlier writeEvent calls,
\* with any timestamps, and snapshots of it made by earlier createSnapshot
\* calls.
InitReconstruct ==
    /\ calls = [c \in CallIds |-> Idle]
    /\ started = 0
    /\ \E n \in 0 .. MaxChain :
           \E ts \in [1 .. n -> Timestamps], K \in SUBSET (1 .. n) :
               /\ events = [i \in Instances |->
                               IF i = "dbA" THEN Rows(WrittenChain(ts))
                               ELSE {}]
               /\ snapshots = [i \in Instances |->
                                  IF i = "dbA"
                                  THEN WrittenSnapshots(WrittenChain(ts), K)
                                  ELSE {}]
    /\ spaceLocks = [s \in Spaces |-> NoLock]
    /\ resolved = {}
    /\ failures = 0

\* The steps of a createSnapshot call in flight.
SnapshotStep(c) ==
    \/ SnapLatest(c)
    \/ SnapEvents(c)
    \/ SnapAdd(c)
    \/ SnapFail(c)

\* One EventLog instance: reconstructState alongside createSnapshot and
\* importArchive.
NextReconstruct ==
    \/ \E c \in CallIds, s \in Spaces : CreateSnapshotCall(c, "dbA", s)
    \/ \E c \in CallIds, a \in Archives : ImportCall(c, "dbA", a)
    \/ \E c \in CallIds, s \in Spaces, atTimestamp \in TimestampInputs :
           ReconstructCall(c, "dbA", s, atTimestamp)
    \/ \E c \in CallIds : SnapshotStep(c)
    \/ \E c \in CallIds : ImportStep(c)
    \/ \E c \in CallIds : ReconStep(c)

SpecReconstruct == InitReconstruct /\ [][NextReconstruct]_vars

\* As SpecReconstruct, without importArchive: every event of the store was
\* inserted by writeEvent.
NextReplay ==
    \/ \E c \in CallIds, s \in SpaceInputs : WriteCall(c, "dbA", s)
    \/ \E c \in CallIds, s \in Spaces : CreateSnapshotCall(c, "dbA", s)
    \/ \E c \in CallIds, s \in Spaces, atTimestamp \in TimestampInputs :
           ReconstructCall(c, "dbA", s, atTimestamp)
    \/ \E c \in CallIds : Step(c)
    \/ \E c \in CallIds : ReconStep(c)

SpecReplay == InitReconstruct /\ [][NextReplay]_vars

QueryStep(c) ==
    \/ QueryCount(c)
    \/ QueryRows(c)
    \/ QueryFail(c)

\* One EventLog instance: first pages of queryBySpace on the space that
\* writeEvent calls write to at the same time.
NextQuery ==
    \/ \E c \in CallIds : WriteCall(c, "dbA", "s")
    \/ \E c \in CallIds, limit \in LimitInputs, order \in {"asc", "desc"} :
           QueryCall(c, "dbA", "space", "s", limit, order, NoCursor)
    \/ \E c \in CallIds :
           QueryCall(c, "dbA", "space", "s", NoLimit, "asc", InvalidCursor)
    \/ \E c \in CallIds : Step(c)
    \/ \E c \in CallIds : QueryStep(c)

SpecQuery == InitVerify /\ [][NextQuery]_vars

\* One EventLog instance: first pages of queryBySpace and queryByType, and
\* writeEvent calls after them; each call is awaited before the next one is
\* made.
NextPaging ==
    \/ \E c \in CallIds, s \in Spaces : Quiescent /\ WriteCall(c, "dbA", s)
    \/ \E c \in CallIds, kind \in {"space", "type"}, limit \in LimitInputs,
          order \in {"asc", "desc"} :
           Quiescent /\ QueryCall(c, "dbA", kind, "s", limit, order, NoCursor)
    \/ \E c \in CallIds : Step(c)
    \/ \E c \in CallIds : QueryStep(c)

SpecPaging == InitVerify /\ [][NextPaging]_vars

\* One EventLog instance that holds a written chain: compact alongside
\* writeEvent.
NextCompact ==
    \/ \E c \in CallIds, s \in SpaceInputs : WriteCall(c, "dbA", s)
    \/ \E c \in CallIds, s \in Spaces : CompactCall(c, "dbA", s)
    \/ \E c \in CallIds : Step(c)
    \/ \E c \in CallIds : CompactStep(c)

SpecCompact == InitVerify /\ [][NextCompact]_vars

\* The store holds a chain of space "s" written by earlier writeEvent calls
\* with any timestamps, and no snapshot.
InitTimestamps ==
    /\ calls = [c \in CallIds |-> Idle]
    /\ started = 0
    /\ \E n \in 0 .. MaxChain :
           \E ts \in [1 .. n -> Timestamps] :
               events = [i \in Instances |->
                            IF i = "dbA" THEN Rows(WrittenChain(ts)) ELSE {}]
    /\ snapshots = [i \in Instances |-> {}]
    /\ spaceLocks = [s \in Spaces |-> NoLock]
    /\ resolved = {}
    /\ failures = 0

\* from and to inputs of queryByTime: a string that `new Date` cannot parse,
\* the timestamps of the events and a later one.
FromInputs == {InvalidDate} \cup Timestamps

ToInputs == DateInputs

\* Page sizes: the default and MAX_LIMIT.
PageLimits == {NoLimit, MaxLimit + 1}

\* The three queries, each call awaited before the next one is made, on a
\* store that writeEvent calls have filled.
NextPagesWritten ==
    \/ \E c \in CallIds, s \in Spaces :
           Quiescent /\ WriteCall(c, "dbA", s)
    \/ \E c \in CallIds, s \in Spaces, limit \in PageLimits,
             order \in {"asc", "desc"} :
           Quiescent /\ QueryCall(c, "dbA", "space", s, limit, order, NoCursor)
    \/ \E c \in CallIds, limit \in PageLimits, order \in {"asc", "desc"} :
           Quiescent /\ QueryCall(c, "dbA", "type", "s", limit, order,
                                  NoCursor)
    \/ \E c \in CallIds, from \in FromInputs, to \in ToInputs,
             limit \in PageLimits, order \in {"asc", "desc"} :
           Quiescent /\ QueryByTimeCall(c, "dbA", from, to, limit, order,
                                        NoCursor)
    \/ \E c \in CallIds : Step(c)
    \/ \E c \in CallIds : QueryStep(c)

SpecPagesWritten == InitTimestamps /\ [][NextPagesWritten]_vars

\* The same on a store that writeEvent and importArchive calls have filled.
NextPages ==
    \/ NextPagesWritten
    \/ \E c \in CallIds, data \in Archives :
           Quiescent /\ ImportCall(c, "dbA", data)
    \/ \E c \in CallIds : ImportStep(c)

SpecPages == InitTimestamps /\ [][NextPages]_vars

\* exportArchive and writeEvent on a store that only writeEvent calls have
\* filled, with any timestamps.
NextExport ==
    \/ \E c \in CallIds : WriteCall(c, "dbA", "s")
    \/ \E c \in CallIds, beforeDate \in DateInputs :
           ExportCall(c, "dbA", "s", beforeDate)
    \/ \E c \in CallIds : Step(c)
    \/ \E c \in CallIds : ExportStep(c)

SpecExport == InitTimestamps /\ [][NextExport]_vars

\* Concurrent writeEvent calls to one space, with store failures;
\* every continuation that can run is run in the end (the event loop takes
\* each settled promise's continuation, and each store operation ends).
NextLive ==
    \/ \E c \in CallIds, s \in {"s", BlankSpace} : WriteCall(c, "dbA", s)
    \/ \E c \in CallIds : Step(c)

SpecLive ==
    /\ Init
    /\ [][NextLive]_vars
    /\ \A c \in CallIds : WF_vars(Step(c))

\* writeEvent called with inputs of every kind, valid or not, on an empty
\* store: concurrent calls, store failures.
NextValidate ==
    \/ \E c \in CallIds, input \in WriteInputs : WriteEventCall(c, "dbA", input)
    \/ \E c \in CallIds : Step(c)

SpecValidate == Init /\ [][NextValidate]_vars

\* ------------------------------------------------------------------ properties

\* The write call c is inside the locked section of withSpaceLock.
InSection(c) ==
    /\ calls[c].op = "write"
    /\ calls[c].pc \in {"readHash", "readSeq", "add", "release"}

\* The inner writeEvent of the write call c has returned to the facade.
WriteReturned(c) ==
    /\ calls[c].op = "write"
    /\ calls[c].pc \in {"hookSnapshot", "hookCount", "snapLatest",
                        "snapEvents", "snapAdd", "done"}

\* The write call c has inserted its event.
Inserted(c) == \E e \in events[calls[c].inst] : e.id = c

\* C1: in every space, whatever the interleaving of the writes, the stored
\* sequence numbers are exactly 1..N with no gap and no duplicate.
C1_SequencePrefix ==
    \A i \in Instances, s \in Spaces :
        /\ {e.sequenceNumber : e \in SpaceEvents(i, s)}
               = 1 .. Cardinality(SpaceEvents(i, s))
        /\ \A e, f \in SpaceEvents(i, s) :
               e.sequenceNumber = f.sequenceNumber => e = f

\* Two writes were fired at one space while the first was in flight (the
\* second chained on the first one's promise) and both have inserted.
C1_Witness ==
    \E c \in CallIds :
        /\ calls[c].pc = "release"
        /\ calls[c].result = "ok"
        /\ calls[c].currentLock # NoLock
        /\ calls[c].sequenceNumber = 2
        /\ Cardinality(SpaceEvents(calls[c].inst, calls[c].spaceId)) = 2

\* C2: after every successful operation, the event with sequence number 1 of
\* a space has a null previous_hash and an event with sequence number k > 1
\* has the stored hash of the event with sequence number k-1 of its space as
\* its previous_hash.
C2_ChainLinked ==
    Quiescent =>
        \A i \in Instances : \A e \in events[i] :
            IF e.sequenceNumber = 1
            THEN e.previousHash = Null
            ELSE /\ \E f \in SpaceEvents(i, e.spaceId) :
                        f.sequenceNumber = e.sequenceNumber - 1
                 /\ \A f \in SpaceEvents(i, e.spaceId) :
                        f.sequenceNumber = e.sequenceNumber - 1
                            => e.previousHash = f.hash

\* C3: at most one write per space is inside the section read tail ->
\* compute -> insert (-> release) at any time.
C3_OneWriterPerSpace ==
    \A c, d \in CallIds :
        (c # d /\ InSection(c) /\ InSection(d))
            => calls[c].spaceId # calls[d].spaceId

\* One write is about to insert while another write to the same space waits
\* for the first one's promise.
C3_Witness ==
    \E c, d \in CallIds :
        /\ calls[c].pc = "add"
        /\ calls[d].pc = "awaitLock"
        /\ calls[d].currentLock = c
        /\ calls[d].spaceId = calls[c].spaceId

C5_SnapshotsAdvance ==
    [][\A i \in Instances :
          \A n \in snapshots'[i] \ snapshots[i] :
              \A m \in SpaceSnapshots(i, n.spaceId) :
                  n.eventSequenceNumber > m.eventSequenceNumber]_vars

\* C6: no facade call throws or rejects; each returns Ok or Err.
C6_NoThrow == \A c \in CallIds : calls[c].result # "threw"

\* C7: a write that has inserted its event returns it as a success whatever
\* happens in the auto-snapshot step.
C7_WriteResultKept ==
    \A c \in CallIds :
        (calls[c].op = "write" /\ calls[c].pc = "done" /\ Inserted(c))
            => calls[c].result = "ok"

\* C8: once writeEvent has returned, with a success or with any error, its
\* lock promise is resolved and the lock table does not hold it; a write
\* rejected by validation never entered the lock table.
C8_LockReleased ==
    \A c \in CallIds :
        WriteReturned(c) =>
            /\ \A s \in Spaces : spaceLocks[s] # c
            /\ IF calls[c].result = "InvalidEvent"
               THEN c \notin resolved
               ELSE c \in resolved

\* A write whose store operation failed has returned and released the lock
\* while a later write to the same space was queued behind it.
C8_Witness ==
    \E c, d \in CallIds :
        /\ calls[c].op = "write"
        /\ calls[c].pc = "done"
        /\ calls[c].result = "DatabaseError"
        /\ c \in resolved
        /\ calls[d].pc = "awaitLock"
        /\ calls[d].currentLock = c

\* C9: a write during which a store operation of the locked section failed
\* returns DatabaseError, has stored no event, and none of its steps changes
\* the events table.
C9_FailedWriteStoresNothing ==
    /\ [](\A c \in CallIds :
             (calls[c].op = "write"
                 /\ calls[c].failedAt \in {"readHash", "readSeq", "add"})
                 => /\ ~Inserted(c)
                    /\ calls[c].result = "DatabaseError")
    /\ [][\A c \in CallIds :
             (calls'[c] # calls[c]
                 /\ calls'[c].op = "write"
                 /\ calls'[c].failedAt \in {"readHash", "readSeq", "add"})
                 => events' = events]_vars

\* The insert of a write into a space that already holds an event failed,
\* and the write has returned DatabaseError.
C9_Witness ==
    \E c \in CallIds :
        /\ calls[c].op = "write"
        /\ calls[c].pc = "done"
        /\ calls[c].failedAt = "add"
        /\ calls[c].result = "DatabaseError"
        /\ SpaceEvents(calls[c].inst, calls[c].spaceId) # {}

\* C10: a write never waits for the lock promise of a write that was issued
\* through another EventLog instance.
C10_InstancesIndependent ==
    \A c \in CallIds :
        (calls[c].pc = "awaitLock"
            /\ calls[c].currentLock # NoLock
            /\ calls[c].currentLock \notin resolved)
            => calls[calls[c].currentLock].inst = calls[c].inst

\* C11: a write that is waiting for a lock promise waits for the promise of
\* a write to its own space; a pending or in-flight write to another space
\* of the same instance never keeps it out of the locked section.
C11_SpacesIndependent ==
    \A c \in CallIds :
        (calls[c].pc = "awaitLock" /\ ~LockFree(calls[c].currentLock))
            => /\ calls[calls[c].currentLock].op = "write"
               /\ calls[calls[c].currentLock].spaceId = calls[c].spaceId

\* Two writes to different spaces of one instance are inside their locked
\* sections at the same time, the later one without having chained on the
\* earlier one.
C11_Witness ==
    \E c, d \in CallIds :
        /\ c < d
        /\ InSection(c)
        /\ InSection(d)
        /\ calls[c].inst = calls[d].inst
        /\ calls[c].spaceId # calls[d].spaceId
        /\ calls[d].currentLock = NoLock

\* C12: writes to one space enter the locked section in call order: a later
\* write is past `await currentLock` only when every earlier valid write to
\* the space has resolved its promise, and of two writes that inserted, the
\* earlier call's event has the smaller sequence number.
C12_Fifo ==
    \A c, d \in CallIds :
        (/\ c < d
         /\ calls[c].op = "write"
         /\ calls[d].op = "write"
         /\ calls[c].inst = calls[d].inst
         /\ calls[c].spaceId = calls[d].spaceId
         /\ calls[c].result # "InvalidEvent")
            => /\ calls[d].pc \notin {"idle", "awaitLock"} => c \in resolved
               /\ \A e, f \in events[calls[c].inst] :
                      (e.id = c /\ f.id = d)
                          => e.sequenceNumber < f.sequenceNumber

\* The later of two writes to one space was called while the earlier was
\* pending or in flight, and both have inserted their events.
C12_Witness ==
    \E c, d \in CallIds :
        /\ c < d
        /\ calls[d].op = "write"
        /\ calls[d].currentLock = c
        /\ calls[d].pc = "release"
        /\ Inserted(c)
        /\ Inserted(d)

\* C13: within a space events are committed in the order of their sequence
\* numbers: no step, of a write or of an import, inserts an event whose
\* sequence number is smaller than that of an event already stored for its
\* space.
C13_CommitOrder ==
    [][\A i \in Instances :
          \A e \in events'[i] \ events[i] :
              \A f \in SpaceEvents(i, e.spaceId) :
                  e.sequenceNumber >= f.sequenceNumber]_vars

\* The verify call v was made after the table was altered by the call t, the
\* only alteration of the behaviour, and has returned its report.
VerifiedAfter(t, v) ==
    /\ t < v
    /\ calls[t].op \in {"update", "delete"}
    /\ calls[v].op = "verify"
    /\ calls[v].pc = "done"
    /\ calls[v].result = "ok"
    /\ calls[v].inst = calls[t].inst
    /\ calls[v].spaceId = calls[t].spaceId
    /\ \A u \in CallIds \ {t} : calls[u].op \notin {"update", "delete"}

\* C14: when the payload, the hash or the previous_hash of one stored event
\* of a written chain has been altered, a verification of the space made
\* afterwards reports valid = false and names the altered event or the event
\* with the next sequence number as the first broken link.
C14_AlterationDetected ==
    \A t, v \in CallIds :
        (VerifiedAfter(t, v) /\ calls[t].op = "update")
            => /\ ~calls[v].valid
               /\ \E e \in SpaceEvents(calls[v].inst, calls[v].spaceId) :
                      /\ e.id = calls[v].firstBrokenLink
                      /\ \E a \in SpaceEvents(calls[v].inst, calls[v].spaceId) :
                             /\ a.id = calls[t].eventId
                             /\ e.sequenceNumber - a.sequenceNumber \in {0, 1}

\* The payload of the last event of a chain of three was altered, and the
\* verification has walked the first chunk and found the event in the second.
C14_Witness ==
    \E t, v \in CallIds :
        /\ VerifiedAfter(t, v)
        /\ calls[t].op = "update"
        /\ calls[v].checkedEvents > ChunkSize
        /\ calls[v].firstBrokenLink = calls[t].eventId
        /\ \E a \in events[calls[t].inst] :
               a.id = calls[t].eventId /\ a.payload = AlteredPayload

\* C15: when one event of a written chain has been deleted, a verification
\* of the space made afterwards reports valid = false.
C15_DeletionDetected ==
    \A t, v \in CallIds :
        (VerifiedAfter(t, v) /\ calls[t].op = "delete") => ~calls[v].valid

\* As C15, for the deletion of an event that has a successor in the chain:
\* the sequence numbers left in the space are not 1..N.
C15_InnerDeletionDetected ==
    \A t, v \in CallIds :
        (/\ VerifiedAfter(t, v)
         /\ calls[t].op = "delete"
         /\ {e.sequenceNumber :
                e \in SpaceEvents(calls[t].inst, calls[t].spaceId)}
                # 1 .. Cardinality(SpaceEvents(calls[t].inst, calls[t].spaceId)))
            => ~calls[v].valid

\* C16: every report that verifyIntegrity returns for a space whose events
\* were all written by writeEvent has valid = true, also when writes to the
\* space are in flight between the verifier's count and its chunk reads.
C16_WrittenChainValid ==
    \A v \in CallIds :
        (calls[v].op = "verify" /\ calls[v].pc = "done"
            /\ calls[v].result = "ok")
            => /\ calls[v].valid
               /\ calls[v].firstBrokenLink = NoEvent

\* A verification has returned after walking more than one chunk, and its
\* last chunk held an event that a concurrent write inserted after the count.
C16_Witness ==
    \E v, w \in CallIds :
        /\ calls[v].op = "verify"
        /\ calls[v].pc = "done"
        /\ calls[v].result = "ok"
        /\ calls[v].totalEvents > ChunkSize
        /\ calls[v].checkedEvents > calls[v].totalEvents
        /\ calls[w].op = "write"
        /\ calls[w].spaceId = calls[v].spaceId
        /\ Inserted(w)

\* C17: after every successful operation, import_archive included, the hash
\* of every stored event is the SHA-256 of the canonical serialization of
\* the event without its hash field.
C17_HashesMatch ==
    Quiescent =>
        \A i \in Instances : \A e \in events[i] : e.hash = computeEventHash(e)

\* C18: when an import_archive returns its report, also for a store that
\* held events of the space before, the sequence numbers stored for each
\* space of that store are exactly 1..N, without gap or duplicate.
C18_ImportKeepsPrefix ==
    [][\A m \in CallIds :
          (calls[m].pc # "done" /\ calls'[m].pc = "done"
              /\ calls'[m].op = "import" /\ calls'[m].result = "ok")
              => \A s \in Spaces :
                     LET stored == {e \in events'[calls'[m].inst] :
                                       e.spaceId = s}
                     IN  /\ {e.sequenceNumber : e \in stored}
                                = 1 .. Cardinality(stored)
                         /\ \A e, f \in stored :
                                e.sequenceNumber = f.sequenceNumber
                                    => e = f]_vars

\* The import call d imports again, on the same store, the archive that the
\* import call c imported successfully before d was called.
ImportedAgain(c, d) ==
    /\ c < d
    /\ calls[c].op = "import"
    /\ calls[c].pc = "done"
    /\ calls[c].result = "ok"
    /\ calls[d].op = "import"
    /\ calls[d].inst = calls[c].inst
    /\ calls[d].bytes = calls[c].bytes

RoundTrip(m, y, d) ==
    /\ m < y
    /\ d \in DateInputs \ {InvalidDate}
    /\ calls[m].op = "import"
    /\ calls[m].inst = "dbB"
    /\ calls[m].pc = "done"
    /\ calls[m].result = "ok"
    /\ calls[y].op = "export"
    /\ calls[y].inst = "dbB"
    /\ calls[y].spaceId = "s"
    /\ calls[y].beforeDate = d
    /\ calls[y].pc = "done"
    /\ calls[y].failedAt = "none"
    /\ exportArchive("dbA", "s", d).result = "ok"
    /\ calls[m].bytes = exportArchive("dbA", "s", d).bytes
    /\ calls[m].importedEvents = calls[m].bytes.eventCount
    /\ Cardinality(events["dbB"]) = calls[m].bytes.eventCount

Returns(c, r) ==
    /\ calls[c].pc # "done"
    /\ calls'[c].pc = "done"
    /\ calls'[c].result = r

\* C21: the state that reconstructState returns for a space without a
\* timestamp is the fold, from null, of all events the space holds at that
\* moment in index order, whatever snapshots are stored.
C21_ReconstructEqualsReplay ==
    [][\A c \in CallIds :
          (Returns(c, "ok") /\ calls'[c].op = "reconstruct"
              /\ calls'[c].atTimestamp = NoTimestamp)
              => calls'[c].value =
                     Fold(<<>>, ToArray(SpaceEvents(calls'[c].inst,
                                                    calls'[c].spaceId)))]_vars

\* The pages that following a cursor to the end returns from the store as it
\* is, one after the other.
RECURSIVE FollowCursor(_, _, _, _, _, _)
FollowCursor(i, kind, s, limit, order, rawCursor) ==
    IF rawCursor = NoCursor THEN <<>>
    ELSE LET page == QueryPage(i, kind, s, limit, order,
                               decodeCursor(rawCursor))
         IN  page.items \o
                 FollowCursor(i, kind, s, limit, order, page.nextCursor)

\* The query call q has returned the first page of a query.
FirstPage(q) ==
    /\ calls[q].op = "query"
    /\ calls[q].pc = "done"
    /\ calls[q].result = "ok"
    /\ calls[q].rawCursor = NoCursor

\* The items of the first page that q returned, followed by those of the
\* pages that its next_cursor leads to in the store as it is now.
AllPages(q) ==
    calls[q].items \o
        FollowCursor(calls[q].inst, calls[q].kind, QueryKey(calls[q]),
                     calls[q].limit, calls[q].order, calls[q].nextCursor)

C23_PrefixOfCommitted ==
    \A q \in CallIds :
        (FirstPage(q) /\ calls[q].kind = "space" /\ calls[q].order = "asc")
            => /\ \A k \in 1 .. Len(calls[q].items) :
                      /\ calls[q].items[k].sequenceNumber = k
                      /\ calls[q].items[k] \in events[calls[q].inst]
               /\ \/ Len(calls[q].items) = calls[q].limit
                  \/ Len(calls[q].items) >= calls[q].total

\* An ascending queryBySpace has returned a page that holds an event which
\* a write inserted after the query had taken its count.
C23_Witness ==
    \E q, w \in CallIds :
        /\ FirstPage(q)
        /\ calls[q].kind = "space"
        /\ calls[q].order = "asc"
        /\ calls[q].total < Len(calls[q].items)
        /\ calls[w].op = "write"
        /\ \E k \in 1 .. Len(calls[q].items) : calls[q].items[k].id = w

\* C24: the total and the items of a query result describe one state of the
\* store: a first page without next_cursor holds exactly `total` items.
C24_TotalMatchesItems ==
    \A q \in CallIds :
        (FirstPage(q) /\ calls[q].nextCursor = NoCursor)
            => Len(calls[q].items) = calls[q].total

\* C25: no page holds more items than the configured maxEventsPerQuery.
C25_PageWithinConfiguredMax ==
    \A q \in CallIds :
        (calls[q].op = "query" /\ calls[q].result = "ok")
            => Len(calls[q].items) <= maxEventsPerQuery

\* The sequence number that the latest snapshot of a space covers, 0 if the
\* space has no snapshot.
CoveredUpTo(i, s) ==
    IF SpaceSnapshots(i, s) = {} THEN 0
    ELSE LatestSnapshot(i, s).eventSequenceNumber

C27_CompactedCountExact ==
    [][\A c \in CallIds :
          (Returns(c, "ok") /\ calls'[c].op = "compact")
              => calls'[c].eventsCompacted =
                     calls'[c].eventSequenceNumber
                         - calls[c].startAfterSeq]_vars

\* ---- C28

\* The inputs the log is to refuse: a spaceId that is empty after trimming, a
\* type that is none of the eleven tags, a timestamp that is empty or does not
\* parse, a version that is not an integer >= 1.
Refused(input) ==
    \/ input.spaceId \in {"", BlankSpace}
    \/ input.type \notin ValidEventTypes
    \/ input.timestamp \in {EmptyTimestamp, UnparsableTimestamp}
    \/ input.version # "1"

\* C28: every writeEvent call whose input has a spaceId that is blank, a type
\* outside the eleven tags, a timestamp that is empty or unparsable, or a
\* version that is not an integer >= 1 has returned InvalidEvent at the call
\* itself, before any access to the store, and has inserted nothing.
C28_InvalidInputRejected ==
    \A c \in CallIds :
        (calls[c].op = "write" /\ Refused(calls[c].input))
            => /\ calls[c].pc = "done"
               /\ calls[c].result = "InvalidEvent"
               /\ ~Inserted(c)

\* The same for the inputs validateInput tells apart: of the versions, those
\* that are no number or are below 1.
C28_CheckedFieldsRejected ==
    \A c \in CallIds :
        (/\ calls[c].op = "write"
         /\ Refused(calls[c].input)
         /\ calls[c].input.version \notin {"1.5", "NaN"})
            => /\ calls[c].pc = "done"
               /\ calls[c].result = "InvalidEvent"
               /\ ~Inserted(c)

\* ---- C29

\* The inputs of the writeEvent calls made through an instance, in the order
\* of the calls, from call c on.
RECURSIVE WritesFrom(_, _)
WritesFrom(i, c) ==
    IF c > MaxCalls THEN <<>>
    ELSE (IF calls[c].op = "write" /\ calls[c].inst = i
          THEN <<calls[c].input>> ELSE <<>>) \o WritesFrom(i, c + 1)

\* Every call that was made has returned, and returned ok.
AllWritten ==
    \A c \in CallIds :
        calls[c].pc # "idle" => (calls[c].pc = "done" /\ calls[c].result = "ok")

\* C29: two runs of the log with the same configuration, here the two
\* instances, that were given the same sequence of writeEvent calls, all
\* returned ok, store the same events: the same ids, sequence numbers,
\* previous hashes and hashes.
C29_RunsIdentical ==
    (AllWritten /\ WritesFrom("dbA", 1) = WritesFrom("dbB", 1))
        => events["dbA"] = events["dbB"]

\* The same for what does not depend on the id: the sequence numbers and the
\* previous hashes of the genesis events.
C29_RunsIdenticalButForIds ==
    (AllWritten /\ WritesFrom("dbA", 1) = WritesFrom("dbB", 1))
        => {<<e.spaceId, e.sequenceNumber, e.previousHash>> :
                e \in events["dbA"]}
               = {<<e.spaceId, e.sequenceNumber, e.previousHash>> :
                      e \in events["dbB"]}

\* ---- C30

\* C30: whenever a writeEvent call inserts its event, the previousHash and
\* the sequenceNumber it gives the event are the hash and the sequence number
\* plus one of the event that is the tail of the space at that moment (null
\* and 1 for a space without events): no other insertion into the space, of
\* a write or of an import, took place between the reads and the insertion.
C30_TailReadAndInsertAtomic ==
    [][\A c \in CallIds :
          (/\ calls[c].op = "write"
           /\ calls[c].pc = "add"
           /\ events' # events
           /\ calls'[c].pc = "release")
              => /\ calls[c].previousHash =
                        getLastEventHash(calls[c].inst, calls[c].spaceId)
                 /\ calls[c].sequenceNumber =
                        getNextSequenceNumber(calls[c].inst, calls[c].spaceId)]_vars

\* ---- C31

\* The pages that a next_cursor leads to in the store as it is now, one
\* after the other.
RECURSIVE PagesFrom(_, _, _, _, _, _)
PagesFrom(i, kind, s, limit, order, rawCursor) ==
    IF rawCursor = NoCursor THEN <<>>
    ELSE LET page == QueryPage(i, kind, s, limit, order,
                               decodeCursor(rawCursor))
         IN  <<page>> \o PagesFrom(i, kind, s, limit, order, page.nextCursor)

\* The number of items on the first n pages.
RECURSIVE ItemsUpTo(_, _)
ItemsUpTo(pages, n) ==
    IF n = 0 THEN 0 ELSE ItemsUpTo(pages, n - 1) + Len(pages[n].items)

\* The query call q has returned a first page and no call was made since.
LastWasFirstPage(q) == FirstPage(q) /\ started = q

\* C31: when no call was made since a first page was returned, that page and
\* the pages its next_cursor leads to hold every event matching the query
\* exactly once, in the requested order of sequence numbers, and a page has a
\* next_cursor exactly when matching events remain after it; for queryBySpace,
\* queryByType and queryByTime.
C31_PaginationComplete ==
    \A q \in CallIds :
        LastWasFirstPage(q) =>
            LET call == calls[q]
                matching == QueryRange(call.inst, call.kind, QueryKey(call),
                                       "asc", Null)
                pages == <<[items |-> call.items,
                            nextCursor |-> call.nextCursor]>>
                             \o PagesFrom(call.inst, call.kind, QueryKey(call),
                                          call.limit, call.order,
                                          call.nextCursor)
                all == AllPages(q)
            IN  /\ {all[k].id : k \in 1 .. Len(all)} = {e.id : e \in matching}
                /\ Len(all) = Cardinality(matching)
                /\ \A k \in 1 .. Len(all) - 1 :
                       IF call.order = "asc"
                       THEN all[k].sequenceNumber <= all[k + 1].sequenceNumber
                       ELSE all[k].sequenceNumber >= all[k + 1].sequenceNumber
                /\ \A n \in 1 .. Len(pages) :
                       (pages[n].nextCursor # NoCursor)
                           <=> (ItemsUpTo(pages, n) < Cardinality(matching))

\* ---- C32

\* C32: the state of every stored snapshot is the fold of the reducer, from
\* null, over the events of its space with the sequence numbers 1 to the
\* snapshot's eventSequenceNumber, in their order.
C32_SnapshotIsFoldOfPrefix ==
    \A i \in Instances :
        \A n \in snapshots[i] :
            n.state =
                Fold(Null,
                     ToArray({e \in SpaceEvents(i, n.spaceId) :
                                 e.sequenceNumber <= n.eventSequenceNumber}))

\* ---- C33

\* C33: the state that reconstructState returns for a space and a timestamp
\* is the fold, from null and in index order, of exactly the events the space
\* holds at that moment whose timestamp is not later than the given one,
\* whatever snapshots are stored and whatever the timestamps of the events.
C33_ReconstructAtTimestamp ==
    [][\A c \in CallIds :
          (Returns(c, "ok") /\ calls'[c].op = "reconstruct"
              /\ calls'[c].atTimestamp # NoTimestamp)
              => calls'[c].value =
                     Fold(<<>>,
                          SelectSeq(ToArray(SpaceEvents(calls'[c].inst,
                                                        calls'[c].spaceId)),
                                    LAMBDA e :
                                        e.timestamp
                                            <= calls'[c].atTimestamp))]_vars

\* ---- C34

\* C34: a reconstructState call with a valid timestamp on a space that holds
\* events, which returns without a store failure, returns InvalidQuery on
\* atTimestamp exactly when the timestamp is strictly earlier than the
\* timestamp of every event of the space.
C34_PredatesExactly ==
    [][\A c \in CallIds :
          (/\ calls[c].pc # "done"
           /\ calls'[c].pc = "done"
           /\ calls'[c].op = "reconstruct"
           /\ calls'[c].atTimestamp \in Timestamps
           /\ calls'[c].result \in {"ok", "InvalidQuery"}
           /\ SpaceEvents(calls'[c].inst, calls'[c].spaceId) # {})
              => ((calls'[c].result = "InvalidQuery"
                      /\ calls'[c].field = "atTimestamp")
                    <=> \A e \in SpaceEvents(calls'[c].inst, calls'[c].spaceId) :
                            calls'[c].atTimestamp < e.timestamp)]_vars

\* ---- C35

\* C35: an importArchive call that returns an error has inserted no event:
\* at the step at which it returns ImportFailed, the number of events it has
\* added to the store is 0.
C35_FailedImportInsertsNothing ==
    [][\A c \in CallIds :
          (Returns(c, "ImportFailed") /\ calls'[c].op = "import")
              => calls[c].importedEvents = 0]_vars

\* ---- C36

\* C36: on a store whose events were all written by writeEvent, with any
\* timestamps, no exportArchive call returns IntegrityViolation.
C36_ExportOfWrittenChainIntact ==
    \A c \in CallIds :
        (calls[c].op = "export" /\ calls[c].pc = "done")
            => calls[c].result # "IntegrityViolation"

\* ---- C37

\* C37: every report of verifyIntegrity with valid = true has checkedEvents
\* equal to totalEvents, whatever writes to the space ran during the
\* verification.
C37_ValidReportCheckedAll ==
    \A c \in CallIds :
        (/\ calls[c].op = "verify"
         /\ calls[c].pc = "done"
         /\ calls[c].result = "ok"
         /\ calls[c].valid)
            => calls[c].checkedEvents = calls[c].totalEvents

\* ---- C38

\* The write call c is pending or in flight on the lock of space s: it waits
\* for the lock promise or is inside the locked section.
OnLock(c, s) ==
    /\ calls[c].op = "write"
    /\ calls[c].spaceId = s
    /\ (calls[c].pc = "awaitLock" \/ InSection(c))

\* C38: the lock table has no entry for a space on whose lock no write is
\* pending or in flight; and when an entry is removed, no write to the space
\* is waiting on the lock or inside the locked section any more: it was
\* removed by the last write of the chain.
C38_LockTableDrains ==
    /\ [](\A s \in Spaces :
              (\A c \in CallIds : ~OnLock(c, s)) => spaceLocks[s] = NoLock)
    /\ [][\A s \in Spaces :
              (spaceLocks[s] # NoLock /\ spaceLocks'[s] = NoLock)
                  => /\ calls[spaceLocks[s]].pc = "release"
                     /\ \A c \in CallIds :
                            ~(/\ calls'[c].op = "write"
                              /\ calls'[c].spaceId = s
                              /\ calls'[c].pc \in
                                     {"awaitLock", "readHash", "readSeq",
                                      "add", "release"})]_vars

\* Two writes to one space, the second chained on the lock promise of the
\* first, have both left the locked section, and the entry of the space is
\* gone.
C38_Witness ==
    \E c, d \in CallIds :
        /\ c # d
        /\ calls[c].op = "write"
        /\ calls[d].op = "write"
        /\ calls[c].spaceId = calls[d].spaceId
        /\ calls[d].currentLock = c
        /\ WriteReturned(c)
        /\ calls[d].pc = "hookSnapshot"
        /\ spaceLocks[calls[d].spaceId] = NoLock

\* ---- C39

\* C39: every writeEvent call that was made returns in the end, whether the
\* writes before it on the lock of its space succeeded or failed: no call
\* stays for ever between its call and its return, waiting for the lock or
\* otherwise.
C39_EveryWriteReturns ==
    \A c \in CallIds : []<>(calls[c].pc \in {"idle", "done"})

\* A write that waited for the lock promise of a write whose store operation
\* failed has returned.
C39_Witness ==
    \E c, d \in CallIds :
        /\ calls[c].op = "write"
        /\ calls[c].pc = "done"
        /\ calls[c].result = "DatabaseError"
        /\ calls[d].op = "write"
        /\ calls[d].spaceId = calls[c].spaceId
        /\ c < d
        /\ calls[d].pc = "done"
        /\ calls[d].result = "ok"
        /\ Inserted(d)

\* ---- C40

\* The facade's writeEvent call c is in its auto-snapshot hook: the check
\* (shouldAutoSnapshot) or the creation of the snapshot (createSnapshot).
InHook(c) ==
    /\ calls[c].op = "write"
    /\ calls[c].pc \in {"hookSnapshot", "hookCount", "snapLatest",
                        "snapEvents", "snapAdd"}

\* C40: the auto-snapshot check and the snapshot creation of a write run
\* after the write has released the lock of its space: its lock promise is
\* resolved, the lock table does not hold it any more, and no write that
\* waits on its promise is held back; so another write to the space can take
\* the lock and insert while the snapshot is being built.
C40_HookRunsAfterRelease ==
    \A c \in CallIds :
        InHook(c) =>
            /\ c \in resolved
            /\ spaceLocks[calls[c].spaceId] # c
            /\ \A d \in CallIds :
                   (calls[d].pc = "awaitLock" /\ calls[d].currentLock = c)
                       => LockFree(calls[d].currentLock)

\* The snapshot of a write is built (its events are read and folded, the row
\* is not stored yet) and another write to the space, which waited for the
\* first one's lock promise, has inserted an event the fold did not see.
C40_Witness ==
    \E c, d \in CallIds :
        /\ InHook(c) /\ calls[c].pc = "snapAdd"
        /\ calls[d].op = "write" /\ calls[d].spaceId = calls[c].spaceId
        /\ calls[d].currentLock = c
        /\ \E e \in events[calls[d].inst] :
               /\ e.id = d
               /\ e.sequenceNumber > calls[c].eventSequenceNumber

====
